---- MODULE Spec2Model ----
(***************************************************************************)
(* A model of the panel construction core of the psid package:            *)
(*   - build_panel (src/src/psid/panel.py) with the loaders and column     *)
(*     tables it uses (src/src/psid/load.py) and the FamilyVars crosswalk  *)
(*     (src/src/psid/variables.py);                                        *)
(*   - the Panel accessors get_transitions and to_cross_section.           *)
(*                                                                         *)
(* A pandas DataFrame is a record [cols, rows]: cols is the sequence of    *)
(* column names, rows the sequence of rows, each row a function from the   *)
(* column names to integers.  A missing cell is the value NaN.             *)
(***************************************************************************)
EXTENDS Integers, Sequences, FiniteSets, TLC

(***************************************************************************)
(* Bounds of the explored inputs.                                          *)
(***************************************************************************)
\* household keys (interview numbers) of a wave are 1..MaxKey
MaxKey == 2
\* values of the income variable of a family file are 1..MaxVal
MaxVal == 2
\* number of rows of a directly constructed Panel
MaxLen == 3

\* the missing value of a cell (pandas NaN): every comparison with it is false
NaN == -999

Range(s) == {s[i] : i \in DOMAIN s}

(***************************************************************************)
(* DataFrame operations, as pandas performs them.                          *)
(***************************************************************************)
EmptyFrame == [cols |-> <<>>, rows |-> <<>>]

HasCol(df, c) == c \in Range(df.cols)

\* df[cols]
SelectCols(df, cols) ==
  [cols |-> cols,
   rows |-> [i \in DOMAIN df.rows |-> [c \in Range(cols) |-> df.rows[i][c]]]]

NewName(m, c) == IF c \in DOMAIN m THEN m[c] ELSE c

\* df.rename(columns=m): keys of m that are no column are ignored
RenameCols(df, m) ==
  LET newcols == [i \in DOMAIN df.cols |-> NewName(m, df.cols[i])]
  IN [cols |-> newcols,
      rows |-> [i \in DOMAIN df.rows |->
                 [d \in Range(newcols) |->
                    df.rows[i][CHOOSE c \in Range(df.cols) : NewName(m, c) = d]]]]

\* df[mask]
FilterRows(df, Keep(_)) == [cols |-> df.cols, rows |-> SelectSeq(df.rows, Keep)]

\* df[c] = Val(row)
SetCol(df, c, Val(_)) ==
  LET newcols == IF HasCol(df, c) THEN df.cols ELSE Append(df.cols, c)
  IN [cols |-> newcols,
      rows |-> [i \in DOMAIN df.rows |->
                 [d \in Range(newcols) |->
                    IF d = c THEN Val(df.rows[i]) ELSE df.rows[i][d]]]]

\* df.drop(columns=[c for c in drop if c in df.columns])
DropCols(df, drop) ==
  LET newcols == SelectSeq(df.cols, LAMBDA c : c \notin drop)
  IN [cols |-> newcols,
      rows |-> [i \in DOMAIN df.rows |-> [c \in Range(newcols) |-> df.rows[i][c]]]]

RECURSIVE MergeRows(_, _, _, _)
MergeRows(lrows, rrows, lk, rk) ==
  IF lrows = <<>> THEN <<>>
  ELSE LET l == Head(lrows)
           matches == SelectSeq(rrows, LAMBDA r : r[rk] = l[lk])
       IN [j \in DOMAIN matches |-> l @@ matches[j]]
            \o MergeRows(Tail(lrows), rrows, lk, rk)

\* left.merge(right, left_on=lk, right_on=rk, how="inner"): every pair of a
\* left row and a right row with equal keys, in the order of the left rows
Merge(left, right, lk, rk) ==
  [cols |-> left.cols \o right.cols,
   rows |-> MergeRows(left.rows, right.rows, lk, rk)]

RECURSIVE ConcatCols(_)
ConcatCols(frames) ==
  IF frames = <<>> THEN <<>>
  ELSE LET rest == ConcatCols(Tail(frames))
           first == Head(frames).cols
       IN first \o SelectSeq(rest, LAMBDA c : c \notin Range(first))

RECURSIVE ConcatRows(_, _)
ConcatRows(frames, cols) ==
  IF frames = <<>> THEN <<>>
  ELSE LET f == Head(frames)
       IN [i \in DOMAIN f.rows |->
             [c \in Range(cols) |-> IF HasCol(f, c) THEN f.rows[i][c] ELSE NaN]]
            \o ConcatRows(Tail(frames), cols)

\* pd.concat(frames, ignore_index=True): all rows of all frames, in order,
\* over the union of the columns, a cell of an absent column being missing
Concat(frames) ==
  LET cols == ConcatCols(frames)
  IN [cols |-> cols, rows |-> ConcatRows(frames, cols)]

RECURSIVE InsertInt(_, _)
InsertInt(x, s) ==
  IF s = <<>> THEN <<x>>
  ELSE IF x <= Head(s) THEN <<x>> \o s
       ELSE <<Head(s)>> \o InsertInt(x, Tail(s))

sorted_as_given(s) == s

RECURSIVE sorted(_)
\* sorted(years)
sorted(s) == IF s = <<>> THEN <<>> ELSE InsertInt(Head(s), sorted(Tail(s)))

\* the rows of a and of b side by side (same number of rows)
BindCols(a, b) ==
  [cols |-> a.cols \o b.cols,
   rows |-> [i \in DOMAIN a.rows |-> a.rows[i] @@ b.rows[i]]]

RECURSIVE SetToSeq(_)
\* the elements of a finite set of integers in ascending order
SetToSeq(S) ==
  IF S = {} THEN <<>>
  ELSE LET m == CHOOSE x \in S : \A y \in S : x <= y
       IN <<m>> \o SetToSeq(S \ {m})

(***************************************************************************)
(* load.py: the per-year column tables.  The model uses the survey years   *)
(* 1995 (no sequence column defined), 2019 and 2021.                       *)
(***************************************************************************)
YearsAll == {1995, 2019, 2021}

interview_cols == (2021 :> "ER34501" @@ 2019 :> "ER34301" @@ 1995 :> "ER30657")

seq_cols == (2021 :> "ER34502" @@ 2019 :> "ER34302")

rel_cols == (2021 :> "ER34503" @@ 2019 :> "ER34303")

\* a year outside the table gets a computed name, which no table of the
\* model has; the years of the model are all in the table
get_interview_number_column(year) ==
  IF year \in DOMAIN interview_cols THEN interview_cols[year] ELSE "ER_COMPUTED"

get_sequence_number_column(year) ==
  IF year \in DOMAIN seq_cols THEN seq_cols[year] ELSE ""

get_relationship_column(year) ==
  IF year \in DOMAIN rel_cols THEN rel_cols[year] ELSE ""

(***************************************************************************)
(* variables.py: FamilyVars.  A specification is the sequence of its       *)
(* friendly names (a dict keeps insertion order) and, for each name, its   *)
(* VariableSpec.year_codes.  NoFamilyVars is the argument None.            *)
(***************************************************************************)
NoCode == ""

NoFamilyVars == [given |-> FALSE, names |-> <<>>, specs |-> <<>>]

\* FamilyVars({"income": {1995: .., 2019: .., 2021: ..},
\*             "wealth": {2019: .., 2021: ..}})
DocFamilyVars ==
  [given |-> TRUE,
   names |-> <<"income", "wealth">>,
   specs |-> [income |-> (1995 :> "ER6993" @@ 2019 :> "ER77448" @@ 2021 :> "ER81775"),
              wealth |-> (2019 :> "ER71426" @@ 2021 :> "ER77450")]]

\* VariableSpec.get_code
get_code(year_codes, year) ==
  IF year \in DOMAIN year_codes THEN year_codes[year] ELSE NoCode

get_codes_unfiltered(fv, year) ==
  [i \in DOMAIN fv.names |->
     [name |-> fv.names[i], code |-> get_code(fv.specs[fv.names[i]], year)]]

\* FamilyVars.get_codes: the names with a code for the year, in order
get_codes(fv, year) ==
  LET names == SelectSeq(fv.names, LAMBDA n : get_code(fv.specs[n], year) # NoCode)
  IN [i \in DOMAIN names |-> [name |-> names[i], code |-> get_code(fv.specs[names[i]], year)]]

\* FamilyVars.get_columns
get_columns(fv, year) ==
  LET codes == get_codes(fv, year) IN [i \in DOMAIN codes |-> codes[i].code]

(***************************************************************************)
(* The files.  The individual file has one row per individual: the         *)
(* identity columns and, for every wave the file covers, that wave's       *)
(* interview number and sequence number columns.  A family file has one    *)
(* row per household: its key first (the convention build_panel relies     *)
(* on), then the income variable and, from 1999 on, the wealth variable.   *)
(***************************************************************************)
\* (ER30001, ER30002) of the individuals of the file, in file order
Individuals == <<<<1, 2>>, <<2, 1>>>>

NInd == Len(Individuals)

identity_table ==
  [cols |-> <<"ER30001", "ER30002">>,
   rows |-> [i \in 1..NInd |->
               [ER30001 |-> Individuals[i][1], ER30002 |-> Individuals[i][2]]]]

\* the name of the sequence number column of a wave in the file itself; the
\* file has one for 1995 too, which get_sequence_number_column does not know
file_seq_cols == (2021 :> "ER34502" @@ 2019 :> "ER34302" @@ 1995 :> "ER30658")

\* sequence number within the household: 1 = head, 2 = spouse/partner;
\* 0 is the file's code of an individual who is not in the wave
SeqVals == {1, 2}

\* the cells of one individual in one wave: (interview number, sequence number)
WaveCells ==
  {<<k, 0>> : k \in {NaN, -1, 0}} \cup {<<k, q>> : k \in 1..MaxKey, q \in SeqVals}

\* a smaller set of cells: not in the wave, head of household 1, spouse in
\* the last household
FewWaveCells == {<<0, 0>>, <<1, 1>>, <<MaxKey, 2>>}

\* a wave the file does not cover has no columns
NoWave == [cols |-> <<>>, rows |-> [i \in 1..NInd |-> <<>>]]

\* the columns of a wave in the individual file
Waves(yr, cells) ==
  LET ic == interview_cols[yr]
      sc == file_seq_cols[yr]
  IN {[cols |-> <<ic, sc>>,
       rows |-> [i \in 1..NInd |-> (ic :> w[i][1] @@ sc :> w[i][2])]] :
        w \in [1..NInd -> cells]}
       \cup {NoWave}

fam_file_cols ==
  (1995 :> <<"ER5002", "ER6993">>
   @@ 2019 :> <<"ER72002", "ER77448", "ER71426">>
   @@ 2021 :> <<"ER78002", "ER81775", "ER77450">>)

\* one household row: key, income and (when the file has the column) a wealth
\* that identifies the household
FamRow(yr, k, inc) ==
  LET cols == fam_file_cols[yr]
  IN IF Len(cols) = 2 THEN (cols[1] :> k @@ cols[2] :> inc)
     ELSE (cols[1] :> k @@ cols[2] :> inc @@ cols[3] :> 10 * k)

NoFile == [found |-> FALSE, frame |-> EmptyFrame]

\* the family file with the households K (distinct keys, ascending)
FamFile(yr, K, inc) ==
  [found |-> TRUE,
   frame |-> [cols |-> fam_file_cols[yr],
              rows |-> [i \in 1..Cardinality(K) |->
                          FamRow(yr, SetToSeq(K)[i], inc[SetToSeq(K)[i]])]]]

\* the family files of a year: absent, or any set of households, with or
\* without a blank record (interview number 0)
FamilyFiles(yr) ==
  {NoFile} \cup {FamFile(yr, K \cup Z, inc) :
                  K \in SUBSET (1..MaxKey), Z \in {{}, {0}},
                  inc \in {f \in [0..MaxKey -> 1..MaxVal] : f[0] = MaxVal}}

\* a smaller set: absent, or every household with the same income
FewFamilyFiles(yr) ==
  {NoFile, FamFile(yr, 1..MaxKey, [k \in 1..MaxKey |-> MaxVal])}

(***************************************************************************)
(* Panel (panel.py).                                                       *)
(***************************************************************************)
\* a comparison with a missing value is false
Gt(a, b) == a # NaN /\ b # NaN /\ a > b

\* Panel.__init__ and __post_init__
Panel(data, id_col, time_col) ==
  [data |-> data, id_col |-> id_col, time_col |-> time_col,
   value_cols |-> SelectSeq(data.cols,
                    LAMBDA c : c \notin {id_col, time_col, "interview_number", "sequence"})]

\* Panel.years
PanelYears(p) == SetToSeq({p.data.rows[i][p.time_col] : i \in DOMAIN p.data.rows})

n_required_less_one(ys) == Len(ys) - 1

\* panel.py:149: n_required = len(years), the length of the list
n_required(ys) == Len(ys)

\* Panel.balanced; no years (None or an empty list) means the panel's years
PanelBalanced(p, yrs) ==
  LET ys == IF yrs = <<>> THEN PanelYears(p) ELSE yrs
      rows == p.data.rows
      inyears == SelectSeq(rows, LAMBDA r : r[p.time_col] \in Range(ys))
      counts(pid) == Cardinality({inyears[i][p.time_col] :
                                    i \in {j \in DOMAIN inyears : inyears[j][p.id_col] = pid}})
      valid_ids == {pid \in {inyears[i][p.id_col] : i \in DOMAIN inyears} :
                      counts(pid) = n_required(ys)}
  IN Panel(FilterRows(p.data, LAMBDA r : r[p.id_col] \in valid_ids),
           p.id_col, p.time_col)

enough_more(count, n) == count > n

enough_of_positive(count, n) == n >= 1 /\ count >= n

\* panel.py:181: counts >= n
enough(count, n) == count >= n

\* Panel.min_periods
PanelMinPeriods(p, n) ==
  LET rows == p.data.rows
      counts(pid) == Cardinality({i \in DOMAIN rows :
                                    rows[i][p.id_col] = pid /\ rows[i][p.time_col] # NaN})
      valid_ids == {pid \in {rows[i][p.id_col] : i \in DOMAIN rows} :
                      enough(counts(pid), n)}
  IN Panel(FilterRows(p.data, LAMBDA r : r[p.id_col] \in valid_ids),
           p.id_col, p.time_col)

\* Panel.get_individual
get_individual(p, pid) == FilterRows(p.data, LAMBDA r : r[p.id_col] = pid)

receiver_data_shared(data, df) == df

\* what a method leaves in self.data: the tables it works on and returns
\* (self.data.copy(), self.data[mask], sort_values(), reset_index()) are new
\* objects, and no method assigns to self
receiver_data(data, df) == data

\* df[c] = the value Val(i) in row i
SetColAt(df, c, Val(_)) ==
  LET newcols == IF HasCol(df, c) THEN df.cols ELSE Append(df.cols, c)
  IN [cols |-> newcols,
      rows |-> [i \in DOMAIN df.rows |->
                 [d \in Range(newcols) |->
                    IF d = c THEN Val(i) ELSE df.rows[i][d]]]]

RowLessEq(a, b, idc, tc) == a[idc] < b[idc] \/ (a[idc] = b[idc] /\ a[tc] <= b[tc])

RECURSIVE InsertRow(_, _, _, _)
InsertRow(x, s, idc, tc) ==
  IF s = <<>> THEN <<x>>
  ELSE IF RowLessEq(x, Head(s), idc, tc) THEN <<x>> \o s
       ELSE <<Head(s)>> \o InsertRow(x, Tail(s), idc, tc)

RECURSIVE SortRows(_, _, _)
SortRows(rows, idc, tc) ==
  IF rows = <<>> THEN <<>>
  ELSE InsertRow(Head(rows), SortRows(Tail(rows), idc, tc), idc, tc)

\* df.sort_values([idc, tc]): rows with equal keys keep their order
sort_values(df, idc, tc) == [cols |-> df.cols, rows |-> SortRows(df.rows, idc, tc)]

shift_next_ungrouped(rows, i, idc, c) ==
  IF i + 1 \in DOMAIN rows THEN rows[i + 1][c] ELSE NaN

\* df.groupby(idc)[c].shift(-1) at row i: the value of c in the next row of
\* the same group, missing when there is none
shift_next(rows, i, idc, c) ==
  LET later == {j \in DOMAIN rows : j > i /\ rows[j][idc] = rows[i][idc]}
  IN IF later = {} THEN NaN
     ELSE rows[CHOOSE j \in later : \A k \in later : j <= k][c]

RECURSIVE add_shifted(_, _, _)
\* panel.py:99-103, for the columns cs that are in the table
add_shifted(df, cs, idc) ==
  IF cs = <<>> THEN df
  ELSE add_shifted(SetColAt(df, Head(cs) \o "_t1",
                            LAMBDA i : shift_next(df.rows, i, idc, Head(cs))),
                   Tail(cs), idc)

RECURSIVE pair_cols(_)
pair_cols(cs) ==
  IF cs = <<>> THEN <<>> ELSE <<Head(cs), Head(cs) \o "_t1">> \o pair_cols(Tail(cs))

\* Panel.get_transitions; cols = <<>> is the default (None)
get_transitions(p, cols) ==
  LET use == IF cols = <<>> THEN p.value_cols ELSE cols
      sorted_df == sort_values(p.data, p.id_col, p.time_col)
      present == SelectSeq(use, LAMBDA c : HasCol(sorted_df, c))
      shifted == add_shifted(sorted_df, present, p.id_col)
      df == SetColAt(shifted, "year_t1",
                     LAMBDA i : shift_next(shifted.rows, i, p.id_col, p.time_col))
      result_cols == <<p.id_col, p.time_col, "year_t1">> \o pair_cols(present)
      kept == FilterRows(SelectCols(df, result_cols), LAMBDA r : r["year_t1"] # NaN)
      rename == [c \in Range(present) \cup {p.time_col} |->
                   IF c = p.time_col THEN "year_t" ELSE c \o "_t"]
  IN RenameCols(kept, rename)

\* the year argument of to_cross_section
NoYear == [given |-> FALSE, value |-> 0]

idxmax_first_row(rows, pid, idc, tc) ==
  CHOOSE i \in DOMAIN rows :
    rows[i][idc] = pid /\ \A j \in DOMAIN rows : rows[j][idc] = pid => i <= j

\* the index of the row with the greatest time value of person pid (the first
\* of them)
idxmax(rows, pid, idc, tc) ==
  LET mine == {i \in DOMAIN rows : rows[i][idc] = pid}
      best == {i \in mine : \A j \in mine : rows[j][tc] <= rows[i][tc]}
  IN CHOOSE i \in best : \A j \in best : i <= j

\* Panel.to_cross_section
to_cross_section(p, yr) ==
  IF yr.given
  THEN FilterRows(p.data, LAMBDA r : r[p.time_col] = yr.value)
  ELSE LET rows == p.data.rows
           ids == SetToSeq({rows[i][p.id_col] : i \in DOMAIN rows})
       IN [cols |-> p.data.cols,
           rows |-> [k \in DOMAIN ids |-> rows[idxmax(rows, ids[k], p.id_col, p.time_col)]]]

(***************************************************************************)
(* build_panel (panel.py), one iteration of its loop over the years.       *)
(***************************************************************************)
\* load.py:282-284 and panel.py:259-260
load_individual_person_id(r) == r["ER30001"] * 1000 + r["ER30002"]

person_id_no_factor(r) == r["ER30001"] + r["ER30002"]

person_id(r) == r["ER30001"] * 1000 + r["ER30002"]

\* the columns of the individual table an iteration extracts
ind_cols(tbl, yr) ==
  LET interview_col == get_interview_number_column(yr)
      seq_col == get_sequence_number_column(yr)
      rel_col == get_relationship_column(yr)
  IN <<"person_id", "ER30001", "ER30002">>
       \o (IF HasCol(tbl, interview_col) THEN <<interview_col>> ELSE <<>>)
       \o (IF seq_col # "" /\ HasCol(tbl, seq_col) THEN <<seq_col>> ELSE <<>>)
       \o (IF rel_col # "" /\ HasCol(tbl, rel_col) THEN <<rel_col>> ELSE <<>>)

\* the dict of the rename; of equal keys the last one stands, and a name
\* that is not defined for the year is the key "" (no column)
wave_rename(yr) ==
  LET interview_col == get_interview_number_column(yr)
      seq_col == get_sequence_number_column(yr)
      rel_col == get_relationship_column(yr)
  IN [c \in {interview_col, seq_col, rel_col} |->
        IF c = rel_col THEN (IF rel_col # "" THEN "relationship" ELSE "")
        ELSE IF c = seq_col THEN (IF seq_col # "" THEN "sequence" ELSE "")
        ELSE "interview_number"]

\* ind[ind_cols].copy().rename(...)
ind_year_raw(tbl, yr) == RenameCols(SelectCols(tbl, ind_cols(tbl, yr)), wave_rename(yr))

in_wave_nonnegative(df) == FilterRows(df, LAMBDA r : r["interview_number"] # NaN /\ r["interview_number"] >= 0)

\* the rows with a valid interview this year
in_wave(df) == FilterRows(df, LAMBDA r : Gt(r["interview_number"], 0))

\* the heads_only restriction
heads_filter(df, heads) ==
  IF heads /\ HasCol(df, "sequence")
  THEN FilterRows(df, LAMBDA r : r["sequence"] = 1)
  ELSE df

ind_year(tbl, yr, heads) == heads_filter(in_wave(ind_year_raw(tbl, yr)), heads)

\* the columns argument of load_family: None without a specification
fam_cols(fv, yr) ==
  IF fv.given THEN [given |-> TRUE, list |-> get_columns(fv, yr)]
  ELSE [given |-> FALSE, list |-> <<>>]

\* load_family on a file that was found: the requested columns in the
\* requested order (all of them for None), then the year column
load_family(file, yr, columns) ==
  LET df == IF columns.given THEN SelectCols(file.frame, columns.list) ELSE file.frame
  IN SetCol(df, "year", LAMBDA r : yr)

\* the first column of the loaded family table becomes the join key
fam_keyed(famdf) == RenameCols(famdf, famdf.cols[1] :> "fam_interview")

upper(c) ==
  CASE c = "person_id" -> "PERSON_ID"
    [] c = "interview_number" -> "INTERVIEW_NUMBER"
    [] c = "sequence" -> "SEQUENCE"
    [] c = "relationship" -> "RELATIONSHIP"
    [] c = "fam_interview" -> "FAM_INTERVIEW"
    [] c = "year" -> "YEAR"
    [] c \in {"src", "Src"} -> "SRC"
    [] c \in {"seo", "Seo"} -> "SEO"
    [] c = "immigrant" -> "IMMIGRANT"
    [] c = "unknown" -> "UNKNOWN"
    [] OTHER -> c

\* {c.upper(): code_to_name.get(c.upper(), c) for c in merged.columns}
friendly_rename(df, fv, yr) ==
  LET codes == get_codes(fv, yr)
      code_to_name == [k \in {codes[i].code : i \in DOMAIN codes} |->
                         (CHOOSE e \in Range(codes) : e.code = k).name]
  IN [k \in {upper(c) : c \in Range(df.cols)} |->
        IF k \in DOMAIN code_to_name THEN code_to_name[k]
        ELSE CHOOSE c \in Range(df.cols) : upper(c) = k]

\* the merged table of one year
merge_year(indy, famdf, fv, yr) ==
  LET merged == Merge(indy, fam_keyed(famdf), "interview_number", "fam_interview")
      named == IF fv.given THEN RenameCols(merged, friendly_rename(merged, fv, yr))
               ELSE merged
  IN SetCol(named, "year", LAMBDA r : yr)

\* the stacked table handed to Panel
panel_data(frames) ==
  DropCols(Concat(frames), {"fam_interview", "ER30001", "ER30002"})

(***************************************************************************)
(* Sample strata and the sample filter (sample.py).                        *)
(***************************************************************************)
\* SAMPLE_RANGES, in the order of the dict
SAMPLE_RANGES ==
  <<[sample_type |-> "SRC", ranges |-> <<<<1, 2999>>>>],
    [sample_type |-> "SEO", ranges |-> <<<<5001, 6872>>>>],
    [sample_type |-> "IMMIGRANT",
     ranges |-> <<<<3001, 3511>>, <<4001, 4462>>, <<7001, 9308>>>>]>>

in_range_exclusive(low, high, er30001) == low < er30001 /\ er30001 < high

\* sample.py:57: low <= er30001 <= high
in_range(low, high, er30001) == low <= er30001 /\ er30001 <= high

get_sample_type(er30001) ==
  LET hit(k) == \E n \in DOMAIN SAMPLE_RANGES[k].ranges :
                  in_range(SAMPLE_RANGES[k].ranges[n][1],
                           SAMPLE_RANGES[k].ranges[n][2], er30001)
      hits == {k \in DOMAIN SAMPLE_RANGES : hit(k)}
  IN IF hits = {} THEN "UNKNOWN"
     ELSE SAMPLE_RANGES[CHOOSE k \in hits : \A j \in hits : k <= j].sample_type

\* the names of the members of SampleType
SampleType == {"SRC", "SEO", "IMMIGRANT", "LATINO", "UNKNOWN"}

\* a sample argument: None, one item, or a list of items; an item is a
\* string (str = TRUE) or a member of SampleType, given by its name
NoSample == [kind |-> "None", items |-> <<>>]

\* the sample arguments tried
SampleArgs ==
  {NoSample} \cup
  {[kind |-> "one", items |-> <<[str |-> TRUE, name |-> n]>>] :
     n \in {"SRC", "src", "Seo", "immigrant", "unknown", "bogus"}} \cup
  {[kind |-> "one", items |-> <<[str |-> FALSE, name |-> n]>>] :
     n \in {"SEO", "UNKNOWN", "LATINO"}} \cup
  {[kind |-> "list", items |-> l] :
     l \in {<<>>, <<[str |-> TRUE, name |-> "src"], [str |-> FALSE, name |-> "IMMIGRANT"]>>,
            <<[str |-> FALSE, name |-> "SEO"], [str |-> TRUE, name |-> "seo"]>>,
            <<[str |-> FALSE, name |-> "SRC"], [str |-> TRUE, name |-> "bogus"]>>}}

\* SampleType[s.upper()] of a string, the member itself otherwise; "" stands
\* for the KeyError of a name that is no member
parse_item_or_unknown(it) ==
  IF ~it.str THEN it.name
  ELSE IF upper(it.name) \in SampleType THEN upper(it.name) ELSE "UNKNOWN"

parse_item(it) ==
  IF ~it.str THEN it.name
  ELSE IF upper(it.name) \in SampleType THEN upper(it.name) ELSE ""

\* sample.py:63-92
_parse_sample_arg(sample) ==
  LET names == [k \in DOMAIN sample.items |-> parse_item(sample.items[k])]
      bad == \E k \in DOMAIN names : names[k] = ""
  IN [none |-> sample.kind = "None",
      raised |-> IF bad THEN "KeyError" ELSE "",
      types |-> IF bad THEN <<>> ELSE names]

\* sample.py:117: the caller's table after the call; the function works on
\* df.copy()
caller_df_aliased(df, labelled) == labelled

caller_df(df, labelled) == df

\* sample.py:119-126: the table with its sample_type column
label_sample_type(df, sample, er30001_col, add_column) ==
  IF add_column \/ sample.kind # "None"
  THEN SetCol(df, "sample_type", LAMBDA r : get_sample_type(r[er30001_col]))
  ELSE df

\* sample.py:95-134
filter_by_sample(df, sample, er30001_col, add_column) ==
  LET labelled == label_sample_type(df, sample, er30001_col, add_column)
      sample_types == _parse_sample_arg(sample)
  IN IF sample_types.raised # ""
     THEN [raised |-> sample_types.raised, table |-> EmptyFrame]
     ELSE [raised |-> "",
           table |-> IF sample_types.none THEN labelled
                     ELSE FilterRows(labelled,
                            LAMBDA r : r["sample_type"] \in Range(sample_types.types))]

(***************************************************************************)
(* State.                                                                  *)
(***************************************************************************)
VARIABLES
  years,        \* argument: the requested years, as passed
  family_vars,  \* argument: NoFamilyVars or a specification
  heads_only,   \* argument
  balanced,     \* argument
  data_dir,     \* the family file of every requested year
  ind,          \* the individual table
  year,         \* loop variable (0 before the first iteration)
  todo,         \* the years still to process, in processing order
  all_years,    \* the merged tables of the years processed so far
  warnings,     \* the years skipped with a printed warning
  panel,        \* the Panel returned (or under inspection)
  result,       \* the last call of a Panel accessor and the table it returned
  pc,           \* "start", "loop", "returned", "NoData", "KeyError", ...
  inputs,       \* the arguments of a call of a module-level function
  downloader    \* a PSIDDownloader: _logged_in, and its session's cookie jar
                \* and the requests it sent with the server's replies

vars == <<years, family_vars, heads_only, balanced, data_dir, ind, year, todo,
          all_years, warnings, panel, result, pc, inputs, downloader>>

NoResult == [op |-> "", arg |-> <<>>, table |-> EmptyFrame]

\* download.py:127-141: PSIDDownloader(), with a fresh session
NoDownloader == [_logged_in |-> FALSE, cookies |-> FALSE, requests |-> <<>>]

\* the core ID columns are both there (panel.py:250)
has_core_ids_either(tbl) == HasCol(tbl, "ER30001") \/ HasCol(tbl, "ER30002")

has_core_ids(tbl) == HasCol(tbl, "ER30001") /\ HasCol(tbl, "ER30002")

\* load_individual: the file's columns, then person_id when the file has
\* both identity columns
load_individual(file) ==
  IF HasCol(file, "ER30001") /\ HasCol(file, "ER30002")
  THEN SetCol(file, "person_id", load_individual_person_id)
  ELSE file

\* build_panel is called with the given arguments and files
CalledSample(yrs, fv, heads, bal, dir, file, sample) ==
  /\ downloader = NoDownloader
  /\ years = yrs
  /\ family_vars = fv
  /\ heads_only = heads
  /\ balanced = bal
  /\ data_dir = dir
  /\ ind = load_individual(file)
  /\ year = 0
  /\ todo = <<>>
  /\ all_years = <<>>
  /\ warnings = <<>>
  /\ panel = Panel(EmptyFrame, "person_id", "year")
  /\ result = NoResult
  /\ pc = "start"
  /\ inputs = [sample |-> sample]

\* build_panel called without a sample filter
Called(yrs, fv, heads, bal, dir, file) ==
  CalledSample(yrs, fv, heads, bal, dir, file, NoSample)

\* one requested year, with every wave and every family file of the bounds
InitOneYear ==
  \E y \in YearsAll, fv \in {NoFamilyVars, DocFamilyVars}, heads \in BOOLEAN :
    \E w \in Waves(y, WaveCells), f \in FamilyFiles(y) :
      Called(<<y>>, fv, heads, FALSE, y :> f, BindCols(identity_table, w))

\* the years 2019 and 2021 requested in either order, with the smaller sets
\* of waves and family files
InitTwoYears ==
  \E yrs \in {<<2019, 2021>>, <<2021, 2019>>},
     fv \in {NoFamilyVars, DocFamilyVars}, heads \in BOOLEAN, bal \in BOOLEAN,
     w1 \in Waves(2019, FewWaveCells), w2 \in Waves(2021, FewWaveCells),
     f1 \in FewFamilyFiles(2019), f2 \in FewFamilyFiles(2021) :
       Called(yrs, fv, heads, bal, 2019 :> f1 @@ 2021 :> f2,
              BindCols(BindCols(identity_table, w1), w2))

\* the year 2019 requested with a sample filter, or from an individual file
\* without one or both of the identity columns
InitSampled ==
  \E fv \in {NoFamilyVars, DocFamilyVars}, heads \in BOOLEAN,
     w \in Waves(2019, FewWaveCells), f \in FewFamilyFiles(2019),
     sample \in SampleArgs,
     drop \in {{}, {"ER30001"}, {"ER30002"}, {"ER30001", "ER30002"}} :
       /\ sample = NoSample => drop # {}
       /\ CalledSample(<<2019>>, fv, heads, FALSE, 2019 :> f,
                       DropCols(BindCols(identity_table, w), drop), sample)

Init == InitOneYear \/ InitTwoYears \/ InitSampled

\* panel.py:254-257: the individual table after the sample filter, if any
sample_filtered(tbl, sample) ==
  IF sample.kind = "None" THEN [raised |-> "", table |-> tbl]
  ELSE filter_by_sample(tbl, sample, "ER30001", TRUE)

\* panel.py:245-263: the identity columns are there, the sample filter if
\* any accepts its argument, person_id is assigned and the loop starts over
\* sorted(years); an identity column that is not there after all is a
\* KeyError at its first use
Start ==
  /\ pc = "start"
  /\ has_core_ids(ind)
  /\ IF HasCol(ind, "ER30001") /\ HasCol(ind, "ER30002")
     THEN /\ sample_filtered(ind, inputs.sample).raised = ""
          /\ ind' = SetCol(sample_filtered(ind, inputs.sample).table,
                           "person_id", person_id)
          /\ todo' = sorted(years)
          /\ pc' = "loop"
     ELSE /\ pc' = "KeyError"
          /\ UNCHANGED <<ind, todo>>
  /\ all_years' = <<>>
  /\ UNCHANGED <<downloader, inputs, years, family_vars, heads_only, balanced, data_dir, year,
                 warnings, panel, result>>

\* panel.py:250-251: an identity column is missing from the individual file
StartMissingIds ==
  /\ pc = "start"
  /\ ~has_core_ids(ind)
  /\ pc' = "MissingIds"
  /\ UNCHANGED <<downloader, inputs, years, family_vars, heads_only, balanced, data_dir, ind, year,
                 todo, all_years, warnings, panel, result>>

\* panel.py:254-256: filter_by_sample raises on its sample argument
StartSampleError ==
  /\ pc = "start"
  /\ has_core_ids(ind)
  /\ HasCol(ind, "ER30001") /\ HasCol(ind, "ER30002")
  /\ sample_filtered(ind, inputs.sample).raised # ""
  /\ pc' = "SampleError"
  /\ UNCHANGED <<downloader, inputs, years, family_vars, heads_only, balanced, data_dir, ind, year,
                 todo, all_years, warnings, panel, result>>

\* an iteration whose interview number column is not in the individual
\* table: ind_year["interview_number"] raises KeyError
YearKeyError ==
  /\ pc = "loop" /\ todo # <<>>
  /\ year' = Head(todo)
  /\ todo' = Tail(todo)
  /\ ~HasCol(ind_year_raw(ind, Head(todo)), "interview_number")
  /\ pc' = "KeyError"
  /\ UNCHANGED <<downloader, inputs, years, family_vars, heads_only, balanced, data_dir, ind,
                 all_years, warnings, panel, result>>

\* an iteration whose family file is not found: a warning, and on to the
\* next year
YearSkipped ==
  /\ pc = "loop" /\ todo # <<>>
  /\ year' = Head(todo)
  /\ todo' = Tail(todo)
  /\ HasCol(ind_year_raw(ind, Head(todo)), "interview_number")
  /\ ~data_dir[Head(todo)].found
  /\ warnings' = Append(warnings, Head(todo))
  /\ UNCHANGED <<downloader, inputs, years, family_vars, heads_only, balanced, data_dir, ind,
                 all_years, panel, result, pc>>

\* an iteration whose family file is found: filter, load, merge, rename, tag
YearMerged ==
  /\ pc = "loop" /\ todo # <<>>
  /\ year' = Head(todo)
  /\ todo' = Tail(todo)
  /\ HasCol(ind_year_raw(ind, Head(todo)), "interview_number")
  /\ data_dir[Head(todo)].found
  /\ all_years' = Append(all_years,
       merge_year(ind_year(ind, Head(todo), heads_only),
                  load_family(data_dir[Head(todo)], Head(todo),
                              fam_cols(family_vars, Head(todo))),
                  family_vars, Head(todo)))
  /\ UNCHANGED <<downloader, inputs, years, family_vars, heads_only, balanced, data_dir, ind,
                 warnings, panel, result, pc>>

\* panel.py:333: "if not all_years"
no_rows_loaded(frames) == \A k \in DOMAIN frames : frames[k].rows = <<>>

no_data_loaded(frames) == frames = <<>>

\* panel.py:333-334: no year was loaded
NoData ==
  /\ pc = "loop" /\ todo = <<>>
  /\ no_data_loaded(all_years)
  /\ pc' = "NoData"
  /\ UNCHANGED <<downloader, inputs, years, family_vars, heads_only, balanced, data_dir, ind, year,
                 todo, all_years, warnings, panel, result>>

\* panel.py:336-354: stack, drop the bookkeeping columns, wrap, balance
Return ==
  /\ pc = "loop" /\ todo = <<>>
  /\ ~no_data_loaded(all_years)
  /\ LET p == Panel(panel_data(all_years), "person_id", "year")
     IN panel' = IF balanced THEN PanelBalanced(p, years) ELSE p
  /\ pc' = "returned"
  /\ UNCHANGED <<downloader, inputs, years, family_vars, heads_only, balanced, data_dir, ind, year,
                 todo, all_years, warnings, result>>

Next ==
  \/ Start \/ StartMissingIds \/ StartSampleError
  \/ YearKeyError \/ YearSkipped \/ YearMerged \/ NoData \/ Return

Spec == Init /\ [][Next]_vars

(***************************************************************************)
(* A Panel constructed directly from a person-year table (as the tests     *)
(* do), and its accessors.                                                 *)
(***************************************************************************)
PanelIds == {1, 2}

PanelYearsAll == {2017, 2019, 2021}

PanelIncomes == {1, 2}

PanelRows ==
  {[person_id |-> i, year |-> y, income |-> v] :
     i \in PanelIds, y \in PanelYearsAll, v \in PanelIncomes}

\* the tables of at most MaxLen rows, in any order
PanelTables ==
  {[cols |-> <<"person_id", "year", "income">>, rows |-> rs] :
     rs \in UNION {[1..n -> PanelRows] : n \in 0..MaxLen}}

InitPanel ==
  /\ downloader = NoDownloader
  /\ years = <<>>
  /\ family_vars = NoFamilyVars
  /\ heads_only = FALSE
  /\ balanced = FALSE
  /\ data_dir = <<>>
  /\ ind = EmptyFrame
  /\ year = 0
  /\ todo = <<>>
  /\ all_years = <<>>
  /\ warnings = <<>>
  /\ \E t \in PanelTables : panel = Panel(t, "person_id", "year")
  /\ result = NoResult
  /\ pc = "panel"
  /\ inputs = <<>>

\* the cols arguments tried: the default, a column, a column and a name that
\* is no column
ColsArgs == {<<>>, <<"income">>, <<"income", "wealth">>}

GetTransitions ==
  /\ pc \in {"panel", "returned"}
  /\ \E cols \in ColsArgs :
       /\ result' = [op |-> "get_transitions", arg |-> cols,
                     table |-> get_transitions(panel, cols)]
       /\ panel' = [panel EXCEPT !.data =
                      receiver_data(panel.data,
                                    sort_values(panel.data, panel.id_col, panel.time_col))]
  /\ UNCHANGED <<downloader, inputs, years, family_vars, heads_only, balanced, data_dir, ind, year,
                 todo, all_years, warnings, pc>>

\* the year arguments tried: none, the years of the panels and a year no
\* panel has
YearArgs == {NoYear} \cup {[given |-> TRUE, value |-> y] : y \in PanelYearsAll \cup {2015}}

ToCrossSection ==
  /\ pc \in {"panel", "returned"}
  /\ \E yr \in YearArgs :
       /\ result' = [op |-> "to_cross_section", arg |-> yr,
                     table |-> to_cross_section(panel, yr)]
       /\ panel' = [panel EXCEPT !.data =
                      receiver_data(panel.data, to_cross_section(panel, yr))]
  /\ UNCHANGED <<downloader, inputs, years, family_vars, heads_only, balanced, data_dir, ind, year,
                 todo, all_years, warnings, pc>>

GetIndividual ==
  /\ pc \in {"panel", "returned"}
  /\ \E pid \in PanelIds \cup {0} :
       /\ result' = [op |-> "get_individual", arg |-> pid,
                     table |-> get_individual(panel, pid)]
       /\ panel' = [panel EXCEPT !.data =
                      receiver_data(panel.data, get_individual(panel, pid))]
  /\ UNCHANGED <<downloader, inputs, years, family_vars, heads_only, balanced, data_dir, ind, year,
                 todo, all_years, warnings, pc>>

\* the years arguments tried: none (or an empty list), lists of distinct
\* years, a list that repeats a year, and a year no panel has
BalancedArgs ==
  {<<>>, <<2017>>, <<2019, 2021>>, <<2021, 2017>>, <<2017, 2019, 2021>>,
   <<2019, 2019>>, <<2015>>}

\* the Panel a method returns, as the result of the call
Returned(name, arg, p) ==
  [op |-> name, arg |-> arg, table |-> p.data,
   id_col |-> p.id_col, time_col |-> p.time_col, raised |-> ""]

Balanced ==
  /\ pc \in {"panel", "returned"}
  /\ \E yrs \in BalancedArgs :
       /\ result' = Returned("balanced", yrs, PanelBalanced(panel, yrs))
       /\ panel' = [panel EXCEPT !.data =
                      receiver_data(panel.data, PanelBalanced(panel, yrs).data)]
  /\ UNCHANGED <<downloader, inputs, years, family_vars, heads_only, balanced, data_dir, ind, year,
                 todo, all_years, warnings, pc>>

\* balanced(panel.years) applied to the Panel that balanced(panel.years)
\* returned, with the years of the panel or the years of the returned Panel
BalancedAgain ==
  /\ pc \in {"panel", "returned"}
  /\ result.op = "balanced" /\ result.arg = <<>>
  /\ LET once == Panel(result.table, result.id_col, result.time_col)
     IN \E yrs \in {PanelYears(panel), PanelYears(once)} :
          result' = [Returned("balanced_twice", yrs, PanelBalanced(once, yrs))
                       EXCEPT !.table = PanelBalanced(once, yrs).data]
                    @@ [once |-> result.table]
  /\ UNCHANGED <<downloader, inputs, years, family_vars, heads_only, balanced, data_dir, ind, year,
                 todo, all_years, warnings, panel, pc>>

MinPeriods ==
  /\ pc \in {"panel", "returned"}
  /\ \E n \in (0 - 1)..(MaxLen + 1) :
       /\ result' = Returned("min_periods", n, PanelMinPeriods(panel, n))
       /\ panel' = [panel EXCEPT !.data =
                      receiver_data(panel.data, PanelMinPeriods(panel, n).data)]
  /\ UNCHANGED <<downloader, inputs, years, family_vars, heads_only, balanced, data_dir, ind, year,
                 todo, all_years, warnings, pc>>

NextPanel == GetTransitions \/ ToCrossSection

SpecPanel == InitPanel /\ [][NextPanel]_vars

\* the tables of at most MaxLen rows, in any order, on which the filtering
\* methods are called, alone and one after another
FilterTables ==
  {t \in PanelTables : \A k \in DOMAIN t.rows : t.rows[k]["income"] = 1}

InitFilters ==
  /\ downloader = NoDownloader
  /\ years = <<>>
  /\ family_vars = NoFamilyVars
  /\ heads_only = FALSE
  /\ balanced = FALSE
  /\ data_dir = <<>>
  /\ ind = EmptyFrame
  /\ year = 0
  /\ todo = <<>>
  /\ all_years = <<>>
  /\ warnings = <<>>
  /\ \E t \in FilterTables : panel = Panel(t, "person_id", "year")
  /\ result = NoResult
  /\ pc = "panel"
  /\ inputs = <<>>

NextFilters ==
  \/ GetTransitions \/ ToCrossSection \/ GetIndividual
  \/ Balanced \/ BalancedAgain \/ MinPeriods

SpecFilters == InitFilters /\ [][NextFilters]_vars

(***************************************************************************)
(* _classify_transition (transitions.py).                                  *)
(***************************************************************************)
\* Python's None, next to NaN (a missing cell of a table)
None == -998

\* a == b in Python: NaN equals nothing, None equals None
PyEq(a, b) == a # NaN /\ b # NaN /\ a = b

\* a in (...) in Python
PyIn(a, S) == \E b \in S : PyEq(a, b)

\* TransitionType values
TransitionTypes ==
  {"same_household", "marriage", "divorce", "widowhood", "leave_parental",
   "splitoff", "join_household", "move_with_family", "death", "birth", "other"}

marital_rule_no_separated(marital_from, marital_to) ==
  IF marital_from # None /\ marital_to # None
  THEN IF PyIn(marital_from, {2, 4}) /\ PyEq(marital_to, 1) THEN "marriage"
       ELSE IF PyEq(marital_from, 1) /\ PyIn(marital_to, {4}) THEN "divorce"
       ELSE IF PyEq(marital_from, 1) /\ PyEq(marital_to, 3) THEN "widowhood"
       ELSE ""
  ELSE ""

\* transitions.py:188-203; "" when no return statement is reached
marital_rule(marital_from, marital_to) ==
  IF marital_from # None /\ marital_to # None
  THEN IF PyIn(marital_from, {2, 4, 5}) /\ PyEq(marital_to, 1) THEN "marriage"
       ELSE IF PyEq(marital_from, 1) /\ PyIn(marital_to, {4, 5}) THEN "divorce"
       ELSE IF PyEq(marital_from, 1) /\ PyEq(marital_to, 3) THEN "widowhood"
       ELSE ""
  ELSE ""

leave_rule_splitoff_first(rel_from, rel_to) ==
  IF rel_from # None /\ rel_to # None
  THEN IF ~PyEq(rel_from, 1) /\ PyEq(rel_to, 1) THEN "splitoff"
       ELSE IF PyEq(rel_from, 3) /\ PyEq(rel_to, 1) THEN "leave_parental"
       ELSE ""
  ELSE ""

\* transitions.py:205-215
leave_rule(rel_from, rel_to) ==
  IF rel_from # None /\ rel_to # None
  THEN IF PyEq(rel_from, 3) /\ PyEq(rel_to, 1) THEN "leave_parental"
       ELSE IF ~PyEq(rel_from, 1) /\ PyEq(rel_to, 1) THEN "splitoff"
       ELSE ""
  ELSE ""

\* transitions.py:217-222
join_rule(rel_from, rel_to) ==
  IF rel_from # None /\ rel_to # None
  THEN IF PyEq(rel_from, 1) /\ ~PyEq(rel_to, 1) THEN "join_household" ELSE ""
  ELSE ""

classify_marital_first(hh_from, hh_to, rel_from, rel_to, marital_from, marital_to, age_from, age_to) ==
  IF marital_rule(marital_from, marital_to) # ""
  THEN marital_rule(marital_from, marital_to)
  ELSE IF PyEq(hh_from, hh_to) THEN "same_household"
  ELSE IF leave_rule(rel_from, rel_to) # "" THEN leave_rule(rel_from, rel_to)
  ELSE IF join_rule(rel_from, rel_to) # "" THEN join_rule(rel_from, rel_to)
  ELSE "other"

\* _classify_transition
classify_transition(hh_from, hh_to, rel_from, rel_to, marital_from, marital_to, age_from, age_to) ==
  IF PyEq(hh_from, hh_to) THEN "same_household"
  ELSE IF marital_rule(marital_from, marital_to) # ""
  THEN marital_rule(marital_from, marital_to)
  ELSE IF leave_rule(rel_from, rel_to) # "" THEN leave_rule(rel_from, rel_to)
  ELSE IF join_rule(rel_from, rel_to) # "" THEN join_rule(rel_from, rel_to)
  ELSE "other"

\* the arguments tried: household keys equal, different, absent (None) or
\* missing (NaN); every pair of relationship codes of head, spouse, child,
\* None and NaN; every pair of marital codes 1..5, None and NaN
HouseholdPairs ==
  {<<1, 1>>, <<1, 2>>, <<2, 1>>, <<None, None>>, <<NaN, NaN>>, <<1, NaN>>}

RelCodes == {None, NaN, 1, 2, 3}

MaritalCodes == {None, NaN, 1, 2, 3, 4, 5}

AgePairs == {<<None, None>>, <<30, 32>>}

ClassifyInputs ==
  {[hh_from |-> hh[1], hh_to |-> hh[2], rel_from |-> rf, rel_to |-> rt,
    marital_from |-> mf, marital_to |-> mt, age_from |-> age[1], age_to |-> age[2]] :
     hh \in HouseholdPairs, rf \in RelCodes, rt \in RelCodes,
     mf \in MaritalCodes, mt \in MaritalCodes, age \in AgePairs}

InitClassify ==
  /\ downloader = NoDownloader
  /\ years = <<>>
  /\ family_vars = NoFamilyVars
  /\ heads_only = FALSE
  /\ balanced = FALSE
  /\ data_dir = <<>>
  /\ ind = EmptyFrame
  /\ year = 0
  /\ todo = <<>>
  /\ all_years = <<>>
  /\ warnings = <<>>
  /\ panel = Panel(EmptyFrame, "person_id", "year")
  /\ result = NoResult
  /\ pc = "classify"
  /\ inputs \in ClassifyInputs

Classify ==
  /\ pc = "classify" /\ result = NoResult
  /\ result' = [op |-> "classify_transition", arg |-> inputs, table |-> EmptyFrame,
                type |-> classify_transition(inputs.hh_from, inputs.hh_to,
                                             inputs.rel_from, inputs.rel_to,
                                             inputs.marital_from, inputs.marital_to,
                                             inputs.age_from, inputs.age_to)]
  /\ UNCHANGED <<downloader, inputs, years, family_vars, heads_only, balanced, data_dir, ind, year,
                 todo, all_years, warnings, panel, pc>>

NextClassify == Classify

SpecClassify == InitClassify /\ [][NextClassify]_vars

(***************************************************************************)
(* get_household_transitions (transitions.py).                             *)
(***************************************************************************)
\* a column argument that is not given (marital_col=None, age_col=None)
NoCol == ""

\* row.get(col, None), and None for a column argument that is not given
row_get(row, col) == IF col # NoCol /\ col \in DOMAIN row THEN row[col] ELSE None

hh_changed_when_same(hh_from, hh_to) == PyEq(hh_from, hh_to)

\* transitions.py:148: hh_from != hh_to
hh_changed(hh_from, hh_to) == ~PyEq(hh_from, hh_to)

\* transitions.py:109-149: the event of two rows of a person
event(row_t, row_t1, p, interview_col, relationship_col, marital_col, age_col) ==
  LET hh_from == row_get(row_t, interview_col)
      hh_to == row_get(row_t1, interview_col)
      rel_from == row_get(row_t, relationship_col)
      rel_to == row_get(row_t1, relationship_col)
      marital_from == row_get(row_t, marital_col)
      marital_to == row_get(row_t1, marital_col)
      age_from == row_get(row_t, age_col)
      age_to == row_get(row_t1, age_col)
  IN [person_id |-> row_t[p.id_col],
      year_from |-> row_t[p.time_col], year_to |-> row_t1[p.time_col],
      type |-> classify_transition(hh_from, hh_to, rel_from, rel_to,
                                   marital_from, marital_to, age_from, age_to),
      hh_from |-> hh_from, hh_to |-> hh_to,
      relationship_from |-> rel_from, relationship_to |-> rel_to,
      marital_from |-> marital_from, marital_to |-> marital_to,
      age_from |-> age_from, age_to |-> age_to,
      hh_changed |-> hh_changed(hh_from, hh_to)]

group_events_from_first(group, p, interview_col, relationship_col, marital_col, age_col) ==
  [i \in 1..(Len(group) - 1) |->
     event(group[1], group[i + 1], p, interview_col, relationship_col, marital_col, age_col)]

\* transitions.py:103-149: the events of the rows of one person, in year order
group_events(group, p, interview_col, relationship_col, marital_col, age_col) ==
  [i \in 1..(Len(group) - 1) |->
     event(group[i], group[i + 1], p, interview_col, relationship_col, marital_col, age_col)]

RECURSIVE groups_events(_, _, _, _, _, _, _)
\* transitions.py:102: the loop over the persons, in ascending order
groups_events(ids, rows, p, interview_col, relationship_col, marital_col, age_col) ==
  IF ids = <<>> THEN <<>>
  ELSE group_events(SortRows(SelectSeq(rows, LAMBDA r : r[p.id_col] = Head(ids)),
                             p.id_col, p.time_col),
                    p, interview_col, relationship_col, marital_col, age_col)
       \o groups_events(Tail(ids), rows, p, interview_col, relationship_col,
                        marital_col, age_col)

\* the columns of the table of events
event_cols ==
  <<"person_id", "year_from", "year_to", "type", "hh_from", "hh_to",
    "relationship_from", "relationship_to", "marital_from", "marital_to",
    "age_from", "age_to", "hh_changed">>

get_household_transitions(p, interview_col, relationship_col, marital_col, age_col) ==
  LET df == sort_values(p.data, p.id_col, p.time_col)
      ids == SetToSeq({df.rows[i][p.id_col] : i \in DOMAIN df.rows})
      transitions == groups_events(ids, df.rows, p, interview_col, relationship_col,
                                   marital_col, age_col)
  IN [cols |-> IF transitions = <<>> THEN <<>> ELSE event_cols, rows |-> transitions]

\* the panels tried: person 1 may be observed in 2017, 2019 and 2021, person
\* 2 in 2017 and 2019, each observation with a household and a relationship
\* code (that of person 1 may be missing); the rows are in descending order;
\* a marital column may be there
ObsSlots == <<<<2, 2019>>, <<2, 2017>>, <<1, 2021>>, <<1, 2019>>, <<1, 2017>>>>

NoObs == <<>>

ObsCells(pid) ==
  {NoObs} \cup {<<hh, rel>> : hh \in {1, 2},
                              rel \in IF pid = 1 THEN {1, 3, NaN} ELSE {1, 3}}

marital_by_year == (2017 :> 2 @@ 2019 :> 1 @@ 2021 :> 4)

ObsRow(slot, cell, with_marital) ==
  LET base == [person_id |-> slot[1], year |-> slot[2],
               interview_number |-> cell[1], relationship |-> cell[2]]
  IN IF with_marital THEN base @@ [marital |-> marital_by_year[slot[2]]] ELSE base

RECURSIVE ObsRows(_, _, _)
ObsRows(k, cells, with_marital) ==
  IF k > Len(ObsSlots) THEN <<>>
  ELSE (IF cells[k] = NoObs THEN <<>>
        ELSE <<ObsRow(ObsSlots[k], cells[k], with_marital)>>)
       \o ObsRows(k + 1, cells, with_marital)

HouseholdPanels ==
  {Panel([cols |-> <<"person_id", "year", "interview_number", "relationship">>
                     \o (IF m THEN <<"marital">> ELSE <<>>),
          rows |-> ObsRows(1, cells, m)], "person_id", "year") :
     cells \in {f \in [DOMAIN ObsSlots -> ObsCells(1)] :
                  \A k \in DOMAIN ObsSlots : f[k] \in ObsCells(ObsSlots[k][1])},
     m \in BOOLEAN}

\* the same panels without their interview number column
KeylessPanels ==
  {Panel(DropCols(p.data, {"interview_number"}), "person_id", "year") :
     p \in HouseholdPanels}

InitTransitions ==
  /\ downloader = NoDownloader
  /\ years = <<>>
  /\ family_vars = NoFamilyVars
  /\ heads_only = FALSE
  /\ balanced = FALSE
  /\ data_dir = <<>>
  /\ ind = EmptyFrame
  /\ year = 0
  /\ todo = <<>>
  /\ all_years = <<>>
  /\ warnings = <<>>
  /\ panel \in HouseholdPanels \cup KeylessPanels
  /\ result = NoResult
  /\ pc = "transitions"
  /\ inputs = <<>>

GetHouseholdTransitions ==
  /\ pc = "transitions" /\ result = NoResult
  /\ \E marital_col \in {NoCol, "marital"} :
       result' = [op |-> "get_household_transitions", arg |-> marital_col,
                  table |-> get_household_transitions(panel, "interview_number",
                                                      "relationship", marital_col, NoCol),
                  raised |-> ""]
  /\ UNCHANGED <<downloader, inputs, years, family_vars, heads_only, balanced, data_dir, ind, year,
                 todo, all_years, warnings, panel, pc>>

NextTransitions == GetHouseholdTransitions

SpecTransitions == InitTransitions /\ [][NextTransitions]_vars

(***************************************************************************)
(* get_sample_type (sample.py).                                            *)
(***************************************************************************)
\* the greatest ER30001 tried
MaxCode == 10001

InitSample ==
  /\ downloader = NoDownloader
  /\ years = <<>>
  /\ family_vars = NoFamilyVars
  /\ heads_only = FALSE
  /\ balanced = FALSE
  /\ data_dir = <<>>
  /\ ind = EmptyFrame
  /\ year = 0
  /\ todo = <<>>
  /\ all_years = <<>>
  /\ warnings = <<>>
  /\ panel = Panel(EmptyFrame, "person_id", "year")
  /\ result = NoResult
  /\ pc = "sample"
  /\ \E code \in (0 - 1)..MaxCode : inputs = [er30001 |-> code]

GetSampleType ==
  /\ pc = "sample" /\ result = NoResult
  /\ result' = [op |-> "get_sample_type", arg |-> inputs.er30001, table |-> EmptyFrame,
                type |-> get_sample_type(inputs.er30001)]
  /\ UNCHANGED <<downloader, inputs, years, family_vars, heads_only, balanced, data_dir, ind, year,
                 todo, all_years, warnings, panel, pc>>

NextSample == GetSampleType

SpecSample == InitSample /\ [][NextSample]_vars

(***************************************************************************)
(* PSIDDownloader (download.py): login and download_file against a server  *)
(* whose replies are not known in advance.                                 *)
(***************************************************************************)
\* the greatest number of requests a session sends
MaxRequests == 6

\* what the login page may be: with its hidden tokens, without them, or an
\* HTTP error status
LoginPages == {"tokens", "no_tokens", "http_error"}

\* what the reply to the login form may be: a page with Logout or Welcome,
\* a page with neither that sets the ASPXAUTH cookie, the page of a refused
\* attempt, any other page, or an HTTP error status
LoginReplies == {"welcome", "cookie", "rejected", "other", "http_error"}

FileReplies == {"file", "http_error"}

FileNumbers == {1277, 1278}

\* a request the session sent (with the file number it asks for, 0 for the
\* login page), the reply, and _logged_in when it was sent
Sent(d, request, file, response) ==
  [d EXCEPT !.requests = Append(@, [request |-> request, file |-> file,
                                    response |-> response,
                                    logged_in |-> d._logged_in])]

login_succeeded_unless_rejected(reply, cookies) == reply # "rejected"

\* download.py:209-218: Logout or Welcome in the page; otherwise, unless the
\* page says the attempt was not successful, an ASPXAUTH cookie in the jar
login_succeeded(reply, cookies) ==
  reply = "welcome" \/ (reply # "rejected" /\ cookies)

\* download.py:169-220
login(d, page, reply) ==
  LET got == Sent(d, "GET login", 0, page)
      posted == [Sent(got, "POST login", 0, reply)
                   EXCEPT !.cookies = @ \/ reply = "cookie"]
  IN IF page = "http_error" THEN [downloader |-> got, raised |-> "HTTPError"]
     ELSE IF page = "no_tokens" THEN [downloader |-> got, raised |-> "RuntimeError"]
     ELSE IF reply = "http_error" THEN [downloader |-> posted, raised |-> "HTTPError"]
     ELSE IF login_succeeded(reply, posted.cookies)
          THEN [downloader |-> [posted EXCEPT !._logged_in = TRUE], raised |-> ""]
          ELSE [downloader |-> posted, raised |-> "RuntimeError"]

\* download.py:230-295
download_file(d, file_number, page, reply, file_reply) ==
  LET logged == IF ~d._logged_in THEN login(d, page, reply)
                ELSE [downloader |-> d, raised |-> ""]
  IN IF logged.raised # "" THEN logged
     ELSE [downloader |-> Sent(logged.downloader, "GET file", file_number, file_reply),
           raised |-> IF file_reply = "http_error" THEN "HTTPError" ELSE ""]

InitDownload ==
  /\ downloader = NoDownloader
  /\ years = <<>>
  /\ family_vars = NoFamilyVars
  /\ heads_only = FALSE
  /\ balanced = FALSE
  /\ data_dir = <<>>
  /\ ind = EmptyFrame
  /\ year = 0
  /\ todo = <<>>
  /\ all_years = <<>>
  /\ warnings = <<>>
  /\ panel = Panel(EmptyFrame, "person_id", "year")
  /\ result = NoResult
  /\ pc = "download"
  /\ inputs = <<>>

\* downloader.login()
Login ==
  /\ pc = "download"
  /\ Len(downloader.requests) + 2 <= MaxRequests
  /\ \E page \in LoginPages, reply \in LoginReplies :
       LET out == login(downloader, page, reply)
       IN /\ downloader' = out.downloader
          /\ result' = [op |-> "login", arg |-> 0, table |-> EmptyFrame,
                        raised |-> out.raised]
  /\ UNCHANGED <<inputs, years, family_vars, heads_only, balanced, data_dir, ind, year,
                 todo, all_years, warnings, panel, pc>>

\* downloader.download_file(file_number, output_dir)
DownloadFile ==
  /\ pc = "download"
  /\ Len(downloader.requests) + 3 <= MaxRequests
  /\ \E file_number \in FileNumbers, page \in LoginPages, reply \in LoginReplies,
        file_reply \in FileReplies :
       LET out == download_file(downloader, file_number, page, reply, file_reply)
       IN /\ downloader' = out.downloader
          /\ result' = [op |-> "download_file", arg |-> file_number, table |-> EmptyFrame,
                        raised |-> out.raised]
  /\ UNCHANGED <<inputs, years, family_vars, heads_only, balanced, data_dir, ind, year,
                 todo, all_years, warnings, panel, pc>>

NextDownload == Login \/ DownloadFile

SpecDownload == InitDownload /\ [][NextDownload]_vars

(***************************************************************************)
(* FamilyVars.get_codes and get_columns called for a year.                 *)
(***************************************************************************)
\* a year -> code mapping restricted to some years
Restrict(year_codes, ys) == [y \in DOMAIN year_codes \cap ys |-> year_codes[y]]

\* the specifications tried: none, one or both names of the documented
\* example in either order, each with its codes for any subset of 2019, 2021
VarSpecs ==
  {[given |-> TRUE, names |-> names,
    specs |-> [n \in Range(names) |-> Restrict(DocFamilyVars.specs[n], ys[n])]] :
     names \in {<<>>, <<"income">>, <<"income", "wealth">>, <<"wealth", "income">>},
     ys \in [{"income", "wealth"} -> SUBSET {2019, 2021}]}

InitVariables ==
  /\ downloader = NoDownloader
  /\ years = <<>>
  /\ family_vars \in VarSpecs
  /\ heads_only = FALSE
  /\ balanced = FALSE
  /\ data_dir = <<>>
  /\ ind = EmptyFrame
  /\ year = 0
  /\ todo = <<>>
  /\ all_years = <<>>
  /\ warnings = <<>>
  /\ panel = Panel(EmptyFrame, "person_id", "year")
  /\ result = NoResult
  /\ pc = "variables"
  /\ \E y \in YearsAll : inputs = [year |-> y]

GetCodes ==
  /\ pc = "variables" /\ result = NoResult
  /\ result' = [op |-> "get_codes", arg |-> inputs.year, table |-> EmptyFrame,
                codes |-> get_codes(family_vars, inputs.year)]
  /\ UNCHANGED <<downloader, inputs, years, family_vars, heads_only, balanced, data_dir, ind, year,
                 todo, all_years, warnings, panel, pc>>

GetColumns ==
  /\ pc = "variables" /\ result = NoResult
  /\ result' = [op |-> "get_columns", arg |-> inputs.year, table |-> EmptyFrame,
                columns |-> get_columns(family_vars, inputs.year)]
  /\ UNCHANGED <<downloader, inputs, years, family_vars, heads_only, balanced, data_dir, ind, year,
                 todo, all_years, warnings, panel, pc>>

NextVariables == GetCodes \/ GetColumns

SpecVariables == InitVariables /\ [][NextVariables]_vars

(***************************************************************************)
(* filter_by_sample called on a table of persons.                          *)
(***************************************************************************)
\* the tables of at most MaxLen persons with ER30001 of every stratum met
\* in the files and one outside every range
SampleTables ==
  UNION {{[cols |-> <<"ER30001", "ER30002">>,
           rows |-> [i \in 1..n |-> [ER30001 |-> f[i], ER30002 |-> 1]]] :
            f \in [1..n -> {1, 3000, 3001, 5001}]} : n \in 0..MaxLen}

InitFilterSample ==
  /\ downloader = NoDownloader
  /\ years = <<>>
  /\ family_vars = NoFamilyVars
  /\ heads_only = FALSE
  /\ balanced = FALSE
  /\ data_dir = <<>>
  /\ ind \in SampleTables
  /\ year = 0
  /\ todo = <<>>
  /\ all_years = <<>>
  /\ warnings = <<>>
  /\ panel = Panel(EmptyFrame, "person_id", "year")
  /\ result = NoResult
  /\ pc = "filter_by_sample"
  /\ \E sample \in SampleArgs, add_column \in BOOLEAN :
       inputs = [df |-> ind, sample |-> sample, add_column |-> add_column]

\* filter_by_sample(ind, sample, add_column=...)
FilterBySample ==
  /\ pc = "filter_by_sample" /\ result = NoResult
  /\ LET out == filter_by_sample(ind, inputs.sample, "ER30001", inputs.add_column)
     IN /\ result' = [op |-> "filter_by_sample", arg |-> <<>>,
                      table |-> out.table, raised |-> out.raised]
        /\ ind' = caller_df(ind, label_sample_type(ind, inputs.sample, "ER30001",
                                                   inputs.add_column))
  /\ UNCHANGED <<downloader, inputs, years, family_vars, heads_only, balanced, data_dir, year,
                 todo, all_years, warnings, panel, pc>>

NextFilterSample == FilterBySample

SpecFilterSample == InitFilterSample /\ [][NextFilterSample]_vars

(***************************************************************************)
(* Properties of build_panel.                                              *)
(***************************************************************************)
\* the rows of the merged tables of the years processed so far
MergedRows == UNION {Range(all_years[k].rows) : k \in DOMAIN all_years}

\* the row of the individual table a merged row belongs to
IndividualOf(r) ==
  CHOOSE i \in DOMAIN ind.rows :
    ind.rows[i]["ER30001"] = r["ER30001"] /\ ind.rows[i]["ER30002"] = r["ER30002"]

\* the household key and the sequence number of individual i in the wave of
\* year y, as the individual file records them
KeyOf(i, y) ==
  IF HasCol(ind, interview_cols[y]) THEN ind.rows[i][interview_cols[y]] ELSE NaN

SeqOf(i, y) ==
  IF HasCol(ind, file_seq_cols[y]) THEN ind.rows[i][file_seq_cols[y]] ELSE NaN

\* C1: person_id is ER30001*1000 + ER30002 in the individual table (as
\* load_individual and build_panel leave it) and in every yearly row, so the
\* rows of one individual carry one person_id whatever the household key of
\* the year, and individuals with different (ER30001, ER30002), both with
\* 0 <= ER30002 < 1000, have different person_ids.  (An individual table
\* without both identity columns has no person_id to speak of.)
C1_PersonIdStable ==
  (HasCol(ind, "ER30001") /\ HasCol(ind, "ER30002")) =>
  /\ \A i \in DOMAIN ind.rows :
       ind.rows[i]["person_id"]
         = ind.rows[i]["ER30001"] * 1000 + ind.rows[i]["ER30002"]
  /\ \A r \in MergedRows : r["person_id"] = r["ER30001"] * 1000 + r["ER30002"]
  /\ \A r1, r2 \in MergedRows :
       (r1["ER30001"] = r2["ER30001"] /\ r1["ER30002"] = r2["ER30002"])
         => r1["person_id"] = r2["person_id"]
  /\ \A i, j \in DOMAIN ind.rows :
       LET a == ind.rows[i]
           b == ind.rows[j]
       IN (/\ <<a["ER30001"], a["ER30002"]>> # <<b["ER30001"], b["ER30002"]>>
           /\ 0 <= a["ER30002"] /\ a["ER30002"] < 1000
           /\ 0 <= b["ER30002"] /\ b["ER30002"] < 1000)
            => a["person_id"] # b["person_id"]
  /\ pc = "returned" =>
       \A k \in DOMAIN panel.data.rows :
         \E i \in DOMAIN ind.rows :
           panel.data.rows[k]["person_id"]
             = ind.rows[i]["ER30001"] * 1000 + ind.rows[i]["ER30002"]

\* C1 witness: a returned panel in which one individual has rows of two
\* years with different household keys and another individual has a row
C1_Witness ==
  /\ pc = "returned"
  /\ \E k1, k2, k3 \in DOMAIN panel.data.rows :
       LET r1 == panel.data.rows[k1]
           r2 == panel.data.rows[k2]
           r3 == panel.data.rows[k3]
       IN /\ r1["person_id"] = r2["person_id"]
          /\ r1["year"] # r2["year"]
          /\ r1["interview_number"] # r2["interview_number"]
          /\ r3["person_id"] # r1["person_id"]

\* C3: a merged row, and a row of the returned panel, is of an individual
\* whose household key for the row's year is present and strictly positive;
\* an individual whose key for a year is missing, zero or negative has no
\* row for that year.
C3_PositiveKeyOnly ==
  /\ \A r \in MergedRows :
       LET k == KeyOf(IndividualOf(r), r["year"])
       IN k # NaN /\ k > 0 /\ r["interview_number"] = k
  /\ pc = "returned" =>
       \A n \in DOMAIN panel.data.rows :
         \A i \in DOMAIN ind.rows :
           ind.rows[i]["person_id"] = panel.data.rows[n]["person_id"]
             => LET k == KeyOf(i, panel.data.rows[n]["year"])
                IN k # NaN /\ k > 0

\* C3 witness: a returned panel with a row for a year in which another
\* individual has a household key that is missing, zero or negative, and a
\* family file that holds a record with that key
C3_Witness ==
  /\ pc = "returned"
  /\ \E n \in DOMAIN panel.data.rows, i \in DOMAIN ind.rows :
       LET y == panel.data.rows[n]["year"]
       IN /\ ind.rows[i]["person_id"] # panel.data.rows[n]["person_id"]
          /\ KeyOf(i, y) = 0
          /\ \E h \in Range(data_dir[y].frame.rows) : h[fam_file_cols[y][1]] = 0

\* the requested years whose iteration appended a merged table, ascending:
\* all_years[k] is the table of MergedYears[k]
MergedYears ==
  SetToSeq({y \in Range(years) :
              /\ pc # "start" /\ y \notin Range(todo)
              /\ data_dir[y].found /\ HasCol(ind, interview_cols[y])})

\* the household key column of a family file: its first column
FamKeyCol(y) == fam_file_cols[y][1]

\* the names a merged table may give the family file's column c
NamesOf(c, y) ==
  {c} \cup {n \in Range(family_vars.names) :
              y \in DOMAIN family_vars.specs[n] /\ family_vars.specs[n][y] = c}

\* C2: in every merged row the household values are those of the household
\* of the year's family file whose key equals the person's household key,
\* and a person in the wave (a head, when heads are asked for) whose key is
\* the key of a household of the file has a merged row; with a variable
\* specification as without one.
C2_JoinOnHouseholdKey ==
  /\ \A r \in MergedRows :
       \E h \in Range(data_dir[r["year"]].frame.rows) :
         /\ h[FamKeyCol(r["year"])] = r["interview_number"]
         /\ r["fam_interview"] = h[FamKeyCol(r["year"])]
         /\ \A c \in Range(fam_file_cols[r["year"]]) \ {FamKeyCol(r["year"])} :
              \A n \in NamesOf(c, r["year"]) \cap DOMAIN r : r[n] = h[c]
  /\ \A k \in DOMAIN all_years :
       \A i \in DOMAIN ind.rows :
         LET y == MergedYears[k]
         IN (/\ KeyOf(i, y) # NaN /\ KeyOf(i, y) > 0
             /\ heads_only => SeqOf(i, y) = 1
             /\ \E h \in Range(data_dir[y].frame.rows) :
                  h[FamKeyCol(y)] = KeyOf(i, y))
              => \E r \in Range(all_years[k].rows) : IndividualOf(r) = i

\* C4: with heads_only every merged row of every requested year is of an
\* individual whose sequence number in that year's wave is 1.
C4_HeadsOnlyEveryYear ==
  heads_only =>
    \A r \in MergedRows : SeqOf(IndividualOf(r), r["year"]) = 1

\* C5: with a variable specification the merged table of a year has, for
\* every variable with a code for the year, a column of the friendly name
\* holding the values of the row's household, and every other column keeps
\* its dataset name.
C5_FriendlyColumns ==
  family_vars.given =>
    \A k \in DOMAIN all_years :
      LET y == MergedYears[k]
          f == all_years[k]
      IN /\ \A n \in Range(family_vars.names) :
              y \in DOMAIN family_vars.specs[n] =>
                /\ HasCol(f, n)
                /\ \A r \in Range(f.rows) :
                     \E h \in Range(data_dir[y].frame.rows) :
                       /\ h[FamKeyCol(y)] = r["interview_number"]
                       /\ r[n] = h[family_vars.specs[n][y]]
         /\ \A c \in Range(f.cols) \ Range(family_vars.names) :
              c \in {"person_id", "ER30001", "ER30002", "interview_number",
                     "sequence", "relationship", "fam_interview", "year"}
                    \cup Range(fam_file_cols[y])

\* C6: the call ends in an exception only when no requested year is usable
\* (a year is usable when its family file is found and the individual table
\* has its wave); a year without a family file is skipped with a warning and
\* the returned panel has rows only of years whose file was found.
C6_NoAbortOnSubset ==
  /\ pc \in {"KeyError", "NoData"} =>
       \A y \in Range(years) :
         ~(data_dir[y].found /\ HasCol(ind, interview_cols[y]))
  /\ pc = "returned" =>
       /\ \A n \in DOMAIN panel.data.rows :
            data_dir[panel.data.rows[n]["year"]].found
       /\ \A y \in Range(years) : ~data_dir[y].found => y \in Range(warnings)

C8_UniquePersonYear ==
  pc = "returned" =>
    /\ \A m, n \in DOMAIN panel.data.rows :
         (/\ panel.data.rows[m]["person_id"] = panel.data.rows[n]["person_id"]
          /\ panel.data.rows[m]["year"] = panel.data.rows[n]["year"]) => m = n
    /\ ~balanced =>
         Len(panel.data.rows)
           = Cardinality(UNION {{<<k, j>> : j \in DOMAIN all_years[k].rows} :
                                  k \in DOMAIN all_years})

(***************************************************************************)
(* Properties of the Panel accessors.                                      *)
(***************************************************************************)
\* the observations (row indices) of person pid in the panel
ObsOf(pid) == {i \in DOMAIN panel.data.rows : panel.data.rows[i]["person_id"] = pid}

\* no observation of the person of row i lies strictly between rows i and j
Adjacent(i, j) ==
  LET rows == panel.data.rows
  IN /\ i # j /\ rows[i]["person_id"] = rows[j]["person_id"]
     /\ rows[i]["year"] <= rows[j]["year"]
     /\ \A m \in ObsOf(rows[i]["person_id"]) :
          ~(rows[i]["year"] < rows[m]["year"] /\ rows[m]["year"] < rows[j]["year"])

\* C9: get_transitions has k-1 rows for a person with k observations (none
\* for a single observation); every row takes year_t and income_t from an
\* observation and year_t1 and income_t1 from the next observation of the
\* same person, whatever the gap; every pair of consecutive years of a person
\* has its row.
C9_ConsecutivePairs ==
  result.op = "get_transitions" =>
    LET rows == panel.data.rows
        out == result.table.rows
    IN /\ result.table.cols
            = <<"person_id", "year_t", "year_t1", "income_t", "income_t1">>
       /\ \A pid \in PanelIds :
            Cardinality({n \in DOMAIN out : out[n]["person_id"] = pid})
              = IF ObsOf(pid) = {} THEN 0 ELSE Cardinality(ObsOf(pid)) - 1
       /\ \A n \in DOMAIN out :
            \E i, j \in ObsOf(out[n]["person_id"]) :
              /\ Adjacent(i, j)
              /\ out[n]["year_t"] = rows[i]["year"]
              /\ out[n]["income_t"] = rows[i]["income"]
              /\ out[n]["year_t1"] = rows[j]["year"]
              /\ out[n]["income_t1"] = rows[j]["income"]
       /\ \A i, j \in DOMAIN rows :
            (Adjacent(i, j) /\ rows[i]["year"] < rows[j]["year"]) =>
              \E n \in DOMAIN out :
                /\ out[n]["person_id"] = rows[i]["person_id"]
                /\ out[n]["year_t"] = rows[i]["year"]
                /\ out[n]["year_t1"] = rows[j]["year"]

\* C9 witness: the transitions of a panel whose rows are not in order, of a
\* person observed in 2017 and 2021 only and a person observed once
C9_Witness ==
  /\ result.op = "get_transitions"
  /\ Len(result.table.rows) = 1
  /\ result.table.rows[1]["year_t"] = 2017 /\ result.table.rows[1]["year_t1"] = 2021
  /\ Len(panel.data.rows) = 3
  /\ panel.data.rows[1]["year"] = 2021
  /\ panel.data.rows[2]["person_id"] # panel.data.rows[1]["person_id"]

\* C10: to_cross_section without a year has exactly one row per person of
\* the panel, an observation of the person's greatest year; with a year it
\* has exactly the panel's rows of that year, in order, and none when no
\* person was observed that year.
C10_CrossSection ==
  result.op = "to_cross_section" =>
    LET rows == panel.data.rows
        out == result.table.rows
    IN IF result.arg.given
       THEN out = SelectSeq(rows, LAMBDA r : r["year"] = result.arg.value)
       ELSE /\ \A pid \in PanelIds :
                 Cardinality({n \in DOMAIN out : out[n]["person_id"] = pid})
                   = IF ObsOf(pid) = {} THEN 0 ELSE 1
            /\ \A n \in DOMAIN out :
                 /\ out[n] \in Range(rows)
                 /\ \A i \in ObsOf(out[n]["person_id"]) :
                      rows[i]["year"] <= out[n]["year"]

\* C10 witness: the cross-section without a year of a panel of two persons,
\* one of them observed in two years with the later year first
C10_Witness ==
  /\ result.op = "to_cross_section" /\ ~result.arg.given
  /\ Len(result.table.rows) = 2
  /\ Len(panel.data.rows) = 3
  /\ panel.data.rows[1]["person_id"] = panel.data.rows[3]["person_id"]
  /\ panel.data.rows[1]["year"] > panel.data.rows[3]["year"]
\* the years in which person pid is observed in the panel
YearsOf(pid) == {panel.data.rows[i]["year"] : i \in ObsOf(pid)}

\* C11: balanced(Y) returns, in their order, all the rows of the persons
\* observed in every year of Y (Y the panel's years when none is given) and
\* no row of any other person.
C11_BalancedEveryYear ==
  result.op = "balanced" =>
    LET rows == panel.data.rows
        Y == IF result.arg = <<>>
             THEN {rows[i]["year"] : i \in DOMAIN rows}
             ELSE Range(result.arg)
    IN result.table.rows
         = SelectSeq(rows, LAMBDA r : Y \subseteq YearsOf(r["person_id"]))

\* C12: balanced on the panel's own years, applied to the Panel that
\* balanced on the panel's own years returned, returns the same rows, an
\* empty first result included.
C12_BalancedIdempotent ==
  result.op = "balanced_twice" => result.table = result.once

\* C12 witness: balanced applied twice, where the first application dropped
\* a person and kept another
C12_Witness ==
  /\ result.op = "balanced_twice"
  /\ result.once.rows # <<>>
  /\ Len(result.once.rows) < Len(panel.data.rows)

\* C13: min_periods(n), n >= 1, returns, in their order, all the rows of the
\* persons with at least n observations and no row of any other person;
\* min_periods(1) returns every row.
C13_MinPeriods ==
  (result.op = "min_periods" /\ result.arg >= 1) =>
    /\ result.table.rows
         = SelectSeq(panel.data.rows,
                     LAMBDA r : Cardinality(ObsOf(r["person_id"])) >= result.arg)
    /\ result.arg = 1 => result.table = panel.data

\* C13 witness: min_periods(2) that keeps a person observed twice and drops
\* a person observed once
C13_Witness ==
  /\ result.op = "min_periods" /\ result.arg = 2
  /\ Len(result.table.rows) = 2
  /\ Len(panel.data.rows) = 3

\* C14: no call of get_transitions, to_cross_section, get_individual,
\* balanced or min_periods changes the Panel it is called on, and the Panel
\* that balanced or min_periods returns has the receiver's id and time
\* columns.
C14_ReceiverUnchanged ==
  [][/\ panel' = panel
     /\ result'.op \in {"balanced", "balanced_twice", "min_periods"} =>
          /\ result'.id_col = panel.id_col
          /\ result'.time_col = panel.time_col]_vars

\* C14 witness: a panel whose rows are out of order and from which a call
\* returned a table with fewer rows
C14_Witness ==
  /\ result.op \in {"balanced", "min_periods", "get_individual", "to_cross_section"}
  /\ Len(panel.data.rows) = 3
  /\ Len(result.table.rows) = 1
  /\ panel.data.rows[1]["person_id"] > panel.data.rows[3]["person_id"]

(***************************************************************************)
(* Properties of _classify_transition.                                     *)
(***************************************************************************)
\* a code that is there: neither None (no column) nor NaN (no value)
Present(v) == v # None /\ v # NaN

\* the two household keys are there and differ
KeysDiffer(i) ==
  Present(i.hh_from) /\ Present(i.hh_to) /\ i.hh_from # i.hh_to

\* the marital outcome the rules name for two codes that are there
MaritalOutcome(mf, mt) ==
  IF mf \in {2, 4, 5} /\ mt = 1 THEN "marriage"
  ELSE IF mf = 1 /\ mt \in {4, 5} THEN "divorce"
  ELSE IF mf = 1 /\ mt = 3 THEN "widowhood"
  ELSE ""

\* the relationship outcome the rules name for two codes that are there
RelationshipOutcome(rf, rt) ==
  IF rf = 3 /\ rt = 1 THEN "leave_parental"
  ELSE IF rf # 1 /\ rt = 1 THEN "splitoff"
  ELSE IF rf = 1 /\ rt # 1 THEN "join_household"
  ELSE ""

\* no marital rule matches: a code is missing or no case applies
NoMaritalMatch(i) ==
  ~(Present(i.marital_from) /\ Present(i.marital_to))
    \/ MaritalOutcome(i.marital_from, i.marital_to) = ""

\* C15: equal household keys give SAME_HOUSEHOLD whatever the relationship,
\* marital and age values.
C15_SameHousehold ==
  (/\ result.op = "classify_transition"
   /\ Present(inputs.hh_from) /\ inputs.hh_from = inputs.hh_to)
    => result.type = "same_household"

\* C15 witness: equal keys with codes that a marital and a relationship rule
\* would match
C15_Witness ==
  /\ result.op = "classify_transition"
  /\ inputs.hh_from = 1 /\ inputs.hh_to = 1
  /\ inputs.marital_from = 2 /\ inputs.marital_to = 1
  /\ inputs.rel_from = 3 /\ inputs.rel_to = 1
  /\ result.type = "same_household"

\* C16: with different household keys and both marital codes there, the
\* result is MARRIAGE for 2, 4 or 5 followed by 1, DIVORCE for 1 followed by
\* 4 or 5 and WIDOWHOOD for 1 followed by 3, whatever the relationship codes.
C16_MaritalRules ==
  (/\ result.op = "classify_transition" /\ KeysDiffer(inputs)
   /\ Present(inputs.marital_from) /\ Present(inputs.marital_to)
   /\ MaritalOutcome(inputs.marital_from, inputs.marital_to) # "")
    => result.type = MaritalOutcome(inputs.marital_from, inputs.marital_to)

\* C16 witness: separated then married, child then head, household changed
C16_Witness ==
  /\ result.op = "classify_transition"
  /\ inputs.hh_from = 1 /\ inputs.hh_to = 2
  /\ inputs.marital_from = 5 /\ inputs.marital_to = 1
  /\ inputs.rel_from = 3 /\ inputs.rel_to = 1
  /\ result.type = "marriage"

\* C17: with different household keys, no marital rule matching and both
\* relationship codes there, the result is LEAVE_PARENTAL for child then
\* head, SPLITOFF for another non-head code then head and JOIN_HOUSEHOLD for
\* head then non-head.
C17_RelationshipRules ==
  (/\ result.op = "classify_transition" /\ KeysDiffer(inputs)
   /\ NoMaritalMatch(inputs)
   /\ Present(inputs.rel_from) /\ Present(inputs.rel_to)
   /\ RelationshipOutcome(inputs.rel_from, inputs.rel_to) # "")
    => result.type = RelationshipOutcome(inputs.rel_from, inputs.rel_to)

\* C17 witness: child then head with marital codes that are there and match
\* no marital rule
C17_Witness ==
  /\ result.op = "classify_transition"
  /\ inputs.hh_from = 1 /\ inputs.hh_to = 2
  /\ inputs.marital_from = 2 /\ inputs.marital_to = 2
  /\ inputs.rel_from = 3 /\ inputs.rel_to = 1
  /\ result.type = "leave_parental"

\* C18: every call returns one category, and with different household keys
\* a rule with a code missing on either side (None or NaN) is passed over:
\* the result is the marital outcome if both marital codes are there and
\* match, else the relationship outcome if both relationship codes are there
\* and match, else OTHER.
C18_MissingSignalSkipsRule ==
  result.op = "classify_transition" =>
    /\ result.type \in TransitionTypes
    /\ KeysDiffer(inputs) =>
         result.type =
           IF ~NoMaritalMatch(inputs)
           THEN MaritalOutcome(inputs.marital_from, inputs.marital_to)
           ELSE IF /\ Present(inputs.rel_from) /\ Present(inputs.rel_to)
                   /\ RelationshipOutcome(inputs.rel_from, inputs.rel_to) # ""
                THEN RelationshipOutcome(inputs.rel_from, inputs.rel_to)
                ELSE "other"

(***************************************************************************)
(* Properties of get_household_transitions.                                *)
(***************************************************************************)
\* person pid is observed in year y in household hh with relationship rel
Observed(pid, y, hh, rel) ==
  \E i \in ObsOf(pid) :
    /\ panel.data.rows[i]["year"] = y
    /\ "interview_number" \in DOMAIN panel.data.rows[i]
    /\ panel.data.rows[i]["interview_number"] = hh
    /\ panel.data.rows[i]["relationship"] = rel

\* the events of person pid from year y
EventsFrom(pid, y) ==
  {result.table.rows[n]["type"] :
     n \in {m \in DOMAIN result.table.rows :
              /\ result.table.rows[m]["person_id"] = pid
              /\ result.table.rows[m]["year_from"] = y}}

\* the marital code an event takes from a row
MaritalOf(r) ==
  IF result.arg = "marital" /\ "marital" \in DOMAIN r THEN r["marital"] ELSE None

\* C19: get_household_transitions has k-1 events for a person with k
\* observations; every event is of two observations of one person with no
\* observation of that person between them and takes its years, households,
\* relationship and marital codes from the two; every such pair has its
\* event; a person observed in 2017 (household A, child), 2019 (A, child)
\* and 2021 (B, head) has SAME_HOUSEHOLD from 2017 and LEAVE_PARENTAL from
\* 2019.  (Of a panel that has its interview number column.)
C19_AdjacentPairs ==
  (result.op = "get_household_transitions" /\ HasCol(panel.data, "interview_number")) =>
    LET rows == panel.data.rows
        ev == result.table.rows
    IN /\ \A pid \in {1, 2} :
            Cardinality({n \in DOMAIN ev : ev[n]["person_id"] = pid})
              = IF ObsOf(pid) = {} THEN 0 ELSE Cardinality(ObsOf(pid)) - 1
       /\ \A n \in DOMAIN ev :
            \E i, j \in ObsOf(ev[n]["person_id"]) :
              /\ Adjacent(i, j) /\ rows[i]["year"] < rows[j]["year"]
              /\ ev[n]["year_from"] = rows[i]["year"]
              /\ ev[n]["year_to"] = rows[j]["year"]
              /\ ev[n]["hh_from"] = rows[i]["interview_number"]
              /\ ev[n]["hh_to"] = rows[j]["interview_number"]
              /\ ev[n]["relationship_from"] = rows[i]["relationship"]
              /\ ev[n]["relationship_to"] = rows[j]["relationship"]
              /\ ev[n]["marital_from"] = MaritalOf(rows[i])
              /\ ev[n]["marital_to"] = MaritalOf(rows[j])
       /\ \A i, j \in DOMAIN rows :
            (Adjacent(i, j) /\ rows[i]["year"] < rows[j]["year"]) =>
              \E n \in DOMAIN ev :
                /\ ev[n]["person_id"] = rows[i]["person_id"]
                /\ ev[n]["year_from"] = rows[i]["year"]
                /\ ev[n]["year_to"] = rows[j]["year"]
       /\ \A a, b \in {1, 2} :
            (/\ a # b /\ result.arg = NoCol
             /\ Observed(1, 2017, a, 3) /\ Observed(1, 2019, a, 3)
             /\ Observed(1, 2021, b, 1)) =>
              /\ EventsFrom(1, 2017) = {"same_household"}
              /\ EventsFrom(1, 2019) = {"leave_parental"}

\* C19 witness: the events of a panel with a person observed in 2017 and
\* 2019 in household 1 as child and in 2021 in household 2 as head, and
\* another person observed once
C19_Witness ==
  /\ result.op = "get_household_transitions" /\ result.arg = NoCol
  /\ Observed(1, 2017, 1, 3) /\ Observed(1, 2019, 1, 3) /\ Observed(1, 2021, 2, 1)
  /\ Cardinality(ObsOf(2)) = 1
  /\ Len(result.table.rows) = 2

(***************************************************************************)
(* Properties of get_sample_type.                                          *)
(***************************************************************************)
\* the strata whose documented inclusive range holds the code
StrataOf(code) ==
  {t \in {"SRC", "SEO", "IMMIGRANT"} :
     \/ t = "SRC" /\ 1 <= code /\ code <= 2999
     \/ t = "SEO" /\ 5001 <= code /\ code <= 6872
     \/ t = "IMMIGRANT" /\ \/ 3001 <= code /\ code <= 3511
                           \/ 4001 <= code /\ code <= 4462
                           \/ 7001 <= code /\ code <= 9308}

\* C20: get_sample_type returns the stratum whose inclusive range holds the
\* code; no code is in the ranges of two strata; a code in no range (0, 3000
\* and 10000 among them) gives UNKNOWN.
C20_SampleType ==
  result.op = "get_sample_type" =>
    /\ Cardinality(StrataOf(inputs.er30001)) <= 1
    /\ \A t \in StrataOf(inputs.er30001) : result.type = t
    /\ StrataOf(inputs.er30001) = {} => result.type = "UNKNOWN"
    /\ inputs.er30001 \in {0, 3000, 10000} => result.type = "UNKNOWN"

\* C20 witness: the first code of the last immigrant range
C20_Witness ==
  /\ result.op = "get_sample_type"
  /\ inputs.er30001 = 7001
  /\ result.type = "IMMIGRANT"


\* the spellings of the name of a stratum met in the arguments
Spellings(t) ==
  CASE t = "SRC" -> {"SRC", "src", "Src"}
    [] t = "SEO" -> {"SEO", "seo", "Seo"}
    [] t = "IMMIGRANT" -> {"IMMIGRANT", "immigrant"}
    [] t = "LATINO" -> {"LATINO"}
    [] t = "UNKNOWN" -> {"UNKNOWN", "unknown"}

\* the strata a sample argument asks for, names read without regard to case
Requested(sample) ==
  {t \in SampleType : \E k \in DOMAIN sample.items : sample.items[k].name \in Spellings(t)}

\* every item of the argument names a stratum
Recognized(sample) ==
  \A k \in DOMAIN sample.items : \E t \in SampleType : sample.items[k].name \in Spellings(t)

\* the stratum of a code: the one whose range holds it, UNKNOWN otherwise
StratumOf(code) ==
  IF StrataOf(code) = {} THEN "UNKNOWN" ELSE CHOOSE t \in StrataOf(code) : TRUE

\* a row of a returned table without its label
Unlabelled(r) == [c \in {"ER30001", "ER30002"} |-> r[c]]

\* C21: filter_by_sample returns exactly the rows of the input whose stratum
\* is requested (by a member, a name in any case, or a list of them), every
\* row when sample is None; when a filter is given or the label is asked for
\* every returned row carries its stratum as sample_type; the caller's table
\* is as it was.
C21_FilterBySample ==
  (result.op = "filter_by_sample" /\ Recognized(inputs.sample)) =>
    LET kept == IF inputs.sample.kind = "None" THEN inputs.df.rows
                ELSE SelectSeq(inputs.df.rows,
                       LAMBDA r : StratumOf(r["ER30001"]) \in Requested(inputs.sample))
        rows == result.table.rows
    IN /\ result.raised = ""
       /\ Len(rows) = Len(kept)
       /\ \A i \in DOMAIN rows : Unlabelled(rows[i]) = kept[i]
       /\ (inputs.sample.kind # "None" \/ inputs.add_column) =>
            /\ HasCol(result.table, "sample_type")
            /\ \A i \in DOMAIN rows :
                 rows[i]["sample_type"] = StratumOf(rows[i]["ER30001"])
       /\ ind = inputs.df

\* C21 witness: a mixed list keeps the SRC and immigrant rows of a table that
\* also has another row
C21_Witness ==
  /\ result.op = "filter_by_sample" /\ result.raised = ""
  /\ inputs.sample.kind = "list" /\ Len(inputs.sample.items) = 2
  /\ inputs.sample.items[1].name = "src"
  /\ Len(inputs.df.rows) = 3 /\ Len(result.table.rows) = 2
  /\ result.table.rows[1]["sample_type"] = "IMMIGRANT"
  /\ result.table.rows[2]["sample_type"] = "SRC"


\* C22: build_panel on an individual table without ER30001 or without
\* ER30002 raises the missing-identity-columns error, and raises it first:
\* the table is not filtered by sample, no year is processed, nothing is
\* merged or skipped and no panel is made; the error is raised for no other
\* table.
C22_MissingIdsRaiseFirst ==
  /\ (pc # "start" /\ ~(HasCol(ind, "ER30001") /\ HasCol(ind, "ER30002"))) =>
       /\ pc = "MissingIds"
       /\ ~HasCol(ind, "sample_type")
       /\ year = 0 /\ todo = <<>> /\ all_years = <<>> /\ warnings = <<>>
       /\ panel.data = EmptyFrame
  /\ pc = "MissingIds" => ~(HasCol(ind, "ER30001") /\ HasCol(ind, "ER30002"))

\* C22 witness: the error for a table that has ER30001 but not ER30002, in a
\* call that also gave a sample filter and whose family file exists
C22_Witness ==
  /\ pc = "MissingIds"
  /\ HasCol(ind, "ER30001") /\ ~HasCol(ind, "ER30002")
  /\ inputs.sample.kind # "None"
  /\ data_dir[2019].found

C23_KeylessPanelRaises ==
  (result.op = "get_household_transitions" /\ ~HasCol(panel.data, "interview_number")) =>
    /\ result.raised # ""
    /\ result.table.rows = <<>>


\* the household key of a row of the panel; None when the panel has no
\* interview number column
HouseholdOf(r) ==
  IF "interview_number" \in DOMAIN r THEN r["interview_number"] ELSE None

\* C28: every event has a boolean hh_changed that is true exactly when the
\* household keys of its two observations differ, and its type is
\* SAME_HOUSEHOLD exactly when hh_changed is false.
C28_HouseholdChanged ==
  result.op = "get_household_transitions" =>
    LET rows == panel.data.rows
        ev == result.table.rows
    IN \A n \in DOMAIN ev :
         /\ ev[n]["hh_changed"] \in BOOLEAN
         /\ \A i, j \in ObsOf(ev[n]["person_id"]) :
              (rows[i]["year"] = ev[n]["year_from"] /\ rows[j]["year"] = ev[n]["year_to"])
                => (ev[n]["hh_changed"] <=> HouseholdOf(rows[i]) # HouseholdOf(rows[j]))
         /\ ev[n]["type"] = "same_household" <=> ~ev[n]["hh_changed"]

\* C28 witness: the events of a person who stayed from 2017 to 2019 and
\* moved from 2019 to 2021
C28_Witness ==
  /\ result.op = "get_household_transitions"
  /\ \E n, m \in DOMAIN result.table.rows :
       /\ result.table.rows[n]["person_id"] = 1 /\ result.table.rows[m]["person_id"] = 1
       /\ result.table.rows[n]["year_from"] = 2017 /\ ~result.table.rows[n]["hh_changed"]
       /\ result.table.rows[n]["hh_from"] = 1
       /\ result.table.rows[m]["year_from"] = 2019 /\ result.table.rows[m]["hh_changed"]
       /\ result.table.rows[m]["type"] # "same_household"


\* C25 as stated: min_periods(n) with n < 1 raises instead of returning.
C25_NonPositiveRejected ==
  (result.op = "min_periods" /\ result.arg < 1) => result.raised # ""

\* C25 amended: min_periods does not validate n; with n < 1 it raises nothing
\* and returns a Panel with every row of the receiver, in the receiver's
\* order and with its columns.
C25_NonPositiveKeepsAll ==
  (result.op = "min_periods" /\ result.arg < 1) =>
    /\ result.raised = ""
    /\ result.table = panel.data
    /\ result.id_col = panel.id_col /\ result.time_col = panel.time_col

\* C25 witness: min_periods(0) and min_periods(-1) returning the rows of a
\* panel of two persons
C25_Witness ==
  /\ result.op = "min_periods" /\ result.arg < 0
  /\ Cardinality({result.table.rows[n]["person_id"] : n \in DOMAIN result.table.rows}) = 2


\* the names of the specification that have a code for the year
Coded(fv, y) == {n \in Range(fv.names) : y \in DOMAIN fv.specs[n]}

\* C26: get_codes(year) maps exactly the names with a code for the year,
\* each to its code of that year (nothing when there is none), and
\* get_columns(year) lists exactly those codes.
C26_CodesOfYear ==
  /\ result.op = "get_codes" =>
       /\ {result.codes[i].name : i \in DOMAIN result.codes} = Coded(family_vars, inputs.year)
       /\ Len(result.codes) = Cardinality(Coded(family_vars, inputs.year))
       /\ \A i \in DOMAIN result.codes :
            result.codes[i].code = family_vars.specs[result.codes[i].name][inputs.year]
  /\ result.op = "get_columns" =>
       /\ Range(result.columns)
            = {family_vars.specs[n][inputs.year] : n \in Coded(family_vars, inputs.year)}
       /\ Len(result.columns) = Cardinality(Coded(family_vars, inputs.year))

\* C26 witness: in 2019 only income has a code, of two names
C26_Witness ==
  /\ result.op = "get_codes"
  /\ family_vars.names = <<"wealth", "income">> /\ inputs.year = 2019
  /\ result.codes = <<[name |-> "income", code |-> "ER77448"]>>


\* the persons with a merged row in every year whose family file was found
InEveryFoundYear ==
  {r["person_id"] : r \in MergedRows} \ 
  {pid \in {r["person_id"] : r \in MergedRows} :
     \E k \in DOMAIN all_years :
       \A n \in DOMAIN all_years[k].rows : all_years[k].rows[n]["person_id"] # pid}

\* C27 as stated: build_panel(balanced=True) that skipped a requested year
\* returns the persons observed in every year that was found.
C27_BalancedOverFoundYears ==
  (pc = "returned" /\ balanced /\ warnings # <<>>) =>
    {panel.data.rows[n]["person_id"] : n \in DOMAIN panel.data.rows} = InEveryFoundYear

\* C29: build_panel takes the years in ascending order whatever the order
\* of the argument: the loop goes up in years, the merged tables are in
\* ascending order of year, and the rows of the returned panel are in
\* non-decreasing order of year.
C29_AscendingYears ==
  /\ \A k \in DOMAIN todo : year < todo[k]
  /\ \A j, k \in DOMAIN todo : j < k => todo[j] < todo[k]
  /\ \A j, k \in DOMAIN all_years :
       j < k => \A m \in DOMAIN all_years[j].rows, n \in DOMAIN all_years[k].rows :
                  all_years[j].rows[m]["year"] < all_years[k].rows[n]["year"]
  /\ pc = "returned" =>
       \A m, n \in DOMAIN panel.data.rows :
         m < n => panel.data.rows[m]["year"] <= panel.data.rows[n]["year"]

\* C29 witness: the years given as 2021, 2019 and a panel returned with rows
\* of 2019 before rows of 2021
C29_Witness ==
  /\ pc = "returned" /\ years = <<2021, 2019>>
  /\ panel.data.rows # <<>>
  /\ panel.data.rows[1]["year"] = 2019
  /\ panel.data.rows[Len(panel.data.rows)]["year"] = 2021


\* the requests sent in a step
SentInStep ==
  {downloader'.requests[k] :
     k \in (Len(downloader.requests) + 1)..Len(downloader'.requests)}

\* C30: no data file is requested while _logged_in is false; download_file
\* called while it is false starts with the login; _logged_in becomes true
\* only in a call whose login form the server accepted (a page with Logout
\* or Welcome, or the authentication cookie); a refused login in a call
\* begun while _logged_in is false raises, leaves it false and requests no
\* file.
C30_LoginBeforeFile ==
  /\ [](\A k \in DOMAIN downloader.requests :
          downloader.requests[k].request = "GET file" => downloader.requests[k].logged_in)
  /\ [][/\ (result'.op = "download_file" /\ ~downloader._logged_in) =>
             /\ Len(downloader'.requests) > Len(downloader.requests)
             /\ downloader'.requests[Len(downloader.requests) + 1].request = "GET login"
        /\ (~downloader._logged_in /\ downloader'._logged_in) =>
             \E q \in SentInStep :
               q.request = "POST login" /\ q.response \in {"welcome", "cookie"}
        /\ (/\ ~downloader._logged_in
            /\ \E q \in SentInStep : q.request = "POST login" /\ q.response = "rejected") =>
             /\ result'.raised # ""
             /\ ~downloader'._logged_in
             /\ \A q \in SentInStep : q.request # "GET file"]_vars

\* C30 witness: a download_file that was refused at the login, and after it
\* one that logged in and requested the file
C30_Witness ==
  /\ result.op = "download_file" /\ result.raised = ""
  /\ Len(downloader.requests) = 5
  /\ downloader.requests[2].response = "rejected"
  /\ downloader.requests[4].response = "welcome" /\ ~downloader.requests[4].logged_in
  /\ downloader.requests[5].request = "GET file" /\ downloader.requests[5].logged_in
  /\ downloader.requests[5].file = result.arg

====
